---------------------------- MODULE Spec2Model ----------------------------
(***************************************************************************)
(* Verification model of kiro2api-deno: the Anthropic stream emitter       *)
(* (server/stream_processor.ts), the OpenAI stream projector               *)
(* (server/openai_stream_processor.ts), the binary frame decoder           *)
(* (parser/robust_parser.ts), the credential pool (TokenManager) and the   *)
(* non-stream collector (handleNonStreamRequest).                          *)
(*                                                                         *)
(* Each subsystem has its own specification (SpecStream, SpecOpenAI,       *)
(* SpecDecoder, SpecPool, SpecCollect); the variables of the other         *)
(* subsystems stay at their initial values.                                *)
(***************************************************************************)
EXTENDS Integers, Sequences, FiniteSets, TLC

(***************************************************************************)
(* Common values                                                           *)
(***************************************************************************)

\* A JSON field that is absent (undefined) in a payload.
Absent == "<absent>"

\* JavaScript truthiness of an optional string field: present and not "".
Truthy(s) == s # Absent /\ s # ""

\* Math.ceil(n / 4) for n >= 0
CeilDiv4(n) == (n + 3) \div 4

Max(a, b) == IF a >= b THEN a ELSE b

Range(s) == { s[i] : i \in DOMAIN s }

(***************************************************************************)
(* Upstream events: the JSON payload of one decoded frame, after           *)
(* `payload.assistantResponseEvent || payload`.                            *)
(*   json      - FALSE when the payload is not valid JSON                  *)
(*   inputKind - "none" | "string" | "object" (typeof event.input)         *)
(*   exc       - event.exception_type || event.__type                      *)
(***************************************************************************)
UpstreamEvent(json, content, toolUseId, name, inputKind, input, stop, exc) ==
  [ json |-> json, content |-> content, toolUseId |-> toolUseId, name |-> name,
    inputKind |-> inputKind, input |-> input, stop |-> stop, exc |-> exc ]

TextEv(c) == UpstreamEvent(TRUE, c, Absent, Absent, "none", Absent, FALSE, Absent)

ToolEv(id, name, inputKind, input, stop) ==
  UpstreamEvent(TRUE, Absent, id, name, inputKind, input, stop, Absent)

ExcEv(t) == UpstreamEvent(TRUE, Absent, Absent, Absent, "none", Absent, FALSE, t)

GarbageEv == UpstreamEvent(FALSE, Absent, Absent, Absent, "none", Absent, FALSE, Absent)

\* Tool-use ids upstream may send.
ToolIds == { "t1", "t2", "t3" }

\* Input fragments of scenario S2.
FragA == "{\"x\":"

FragB == "1}"

(***************************************************************************)
(* Variables                                                               *)
(***************************************************************************)
VARIABLES
  \* ---- Anthropic stream (StreamProcessorContext + handleStreamRequest) ----
  spc,                    \* position of handleStreamRequest's start(): "new" | "reading" | "closed" | "errored" | "aborted"
  sout,                   \* SSE events enqueued on the controller, in order
  textBlockStarted,       \* StreamProcessorContext.textBlockStarted
  toolUseIdByBlockIndex,  \* Map<number, string>, as a function on its keys
  completedToolUseIds,    \* Set<string>
  totalOutputTokens,      \* StreamProcessorContext.totalOutputTokens
  ssm,                    \* SSEStateManager state
  cleaned,                \* cleanup() has run
  cancelled,              \* the client has cancelled the response stream
  nRead,                  \* upstream messages read so far
  s2pos,                  \* monitor: the upstream so far is the first s2pos frames of scenario S2 (-1: it is not)
  sawException,           \* monitor: upstream has sent a ContentLengthExceededException event
  \* ---- frame decoder fed chunk by chunk (RobustEventStreamParser) ----
  dframes,                \* the frames upstream sends
  dpos,                   \* bytes of the stream fed so far
  dparser,                \* the parser: buffer, errorCount, maxErrors
  dmsgs,                  \* all messages parseStream has returned, in order
  dthrew,                 \* parseStream has thrown
  dcuts,                  \* monitor: where chunk boundaries fell ("prelude", "headers", "payload")
  \* ---- OpenAI stream (OpenAIStreamProcessorContext + handleOpenAIStreamRequest) ----
  opc,                    \* position of start(): "new" | "reading" | "closed" | "errored" | "rejected"
  oout,                   \* records enqueued on the controller, in order
  binaryParser,           \* OpenAIStreamProcessorContext.binaryParser
  toolIndexByToolUseId,   \* Map<string, number>
  nextToolIndex,
  sawToolUse,
  forcedFinishReason,     \* string | null (Absent)
  onRead,                 \* chunks read so far
  oref,                   \* monitor: the output of the stream that ends right after the exception event
  \* ---- credential pool (TokenManager) and the requests that use it ----
  currentIndex,           \* TokenManager.currentIndex
  tokenCache,             \* Map<number, TokenCache>, NoCache where it has no entry
  exhausted,              \* Set<number>
  refreshLocks,           \* Map<number, Promise<TokenInfo>>: a promise id, 0 where it has no entry
  promises,               \* the refresh promises created so far
  callers,                \* each request's position in getBestTokenWithUsage
  waiting,                \* the requests awaiting a refresh that has not settled, in the order they began to await
  ready,                  \* the microtask queue: requests whose await has settled, in the order they will go on
  selLog,                 \* monitor: the configIndex of every selection returned, in order
  overlapped,             \* monitor: a selection call started while another was in progress
  everExhausted,          \* monitor: indexes that were exhausted at some time
  tried,                  \* monitor: the indexes each request's selection call has attempted so far
  isDestroyed,            \* TokenManager.isDestroyed
  cleanupTimer,           \* TokenManager.cleanupTimer is set (the sweep interval runs)
  warming,                \* refresh promises created by warmupAllTokens
  destroyedAgain,         \* monitor: destroy() was called on the destroyed manager
  \* ---- non-stream collector (handleNonStreamRequest) ----
  cupstream,              \* the payloads of the upstream body, in order
  cdone,                  \* the handler has returned
  cresponse,              \* the response body it returned
  \* ---- HTTP front (handleRequest) and SessionManager ----
  hreq,                   \* the request handleRequest was last called with (NoRequest before the first)
  hresp,                  \* the response it returned: status and the handler that ran
  sessions,               \* SessionManager.sessions: Map<string, string> as its entries in insertion order
  uuids,                  \* number of crypto.randomUUID() values drawn so far
  others,                 \* clients other than the observed one that have called so far
  idFirst,                \* monitor: the id the observed client's first call returned (0 before it)
  idLast,                 \* monitor: the id the observed client's latest call returned
  \* ---- one call of a frame parser (parseStream / parse) ----
  lpParser,               \* the parser class the call belongs to
  lpBuffer,               \* this.buffer
  lpPc,                   \* "idle" | "loop" (inside the while loop) | "returned" | "threw"
  lpErrors,               \* RobustEventStreamParser.errorCount
  lpEmitted,              \* messages pushed by the call so far (counted up to MaxEmitted)
  \* ---- service start (main.ts) and AuthService.reload ----
  bootMode,               \* "local": main() serves after initialize(); "deploy": the exported fetch handler
  envToken,               \* KIRO_CLIENT_TOKEN is set in the environment
  bpc,                    \* position of main() and of each request in handleRequestWithInit
  globalAuthService,      \* 0 for null, else the number of the AuthService it holds
  globalClientToken,      \* globalClientToken is a non-empty string
  initCalls,              \* number of times initialize() was entered
  liveTimers,             \* per AuthService created, in order: TokenManagers whose sweep timer runs
  rpc,                    \* position of the admin request inside AuthService.reload()
  rsvc,                   \* the AuthService that reload() runs on
  reloads                 \* reloads completed

streamVars == << spc, sout, textBlockStarted, toolUseIdByBlockIndex, completedToolUseIds,
                 totalOutputTokens, ssm, cleaned, cancelled, nRead, s2pos, sawException >>

decVars == << dframes, dpos, dparser, dmsgs, dthrew, dcuts >>

openaiVars == << opc, oout, binaryParser, toolIndexByToolUseId, nextToolIndex, sawToolUse,
                forcedFinishReason, onRead, oref >>

lifeVars == << isDestroyed, cleanupTimer, warming, destroyedAgain >>

poolVars == << currentIndex, tokenCache, exhausted, refreshLocks, promises, callers, waiting, ready, selLog,
              overlapped, everExhausted, tried, lifeVars >>

collectVars == << cupstream, cdone, cresponse >>

httpVars == << hreq, hresp >>

sessionVars == << sessions, uuids, others, idFirst, idLast >>

loopVars == << lpParser, lpBuffer, lpPc, lpErrors, lpEmitted >>

bootVars == << bootMode, envToken, bpc, globalAuthService, globalClientToken, initCalls,
              liveTimers, rpc, rsvc, reloads >>

auxVars == << loopVars, bootVars >>

frontVars == << httpVars, sessionVars, auxVars >>

vars == << streamVars, decVars, openaiVars, poolVars, collectVars, frontVars >>

otherThanStream == << decVars, openaiVars, poolVars, collectVars, frontVars >>

otherThanDec == << streamVars, openaiVars, poolVars, collectVars, frontVars >>

otherThanOpenAI == << streamVars, decVars, poolVars, collectVars, frontVars >>

otherThanPool == << streamVars, decVars, openaiVars, collectVars, frontVars >>

otherThanCollect == << streamVars, decVars, openaiVars, poolVars, frontVars >>

otherThanHttp == << streamVars, decVars, openaiVars, poolVars, collectVars, sessionVars, auxVars >>

otherThanSession == << streamVars, decVars, openaiVars, poolVars, collectVars, httpVars, auxVars >>

otherThanLoop == << streamVars, decVars, openaiVars, poolVars, collectVars, httpVars, sessionVars, bootVars >>

otherThanBoot == << streamVars, decVars, openaiVars, poolVars, collectVars, httpVars, sessionVars, loopVars >>

(***************************************************************************)
(* Bounds                                                                  *)
(***************************************************************************)
\* Upstream messages per stream.
MaxEvents == 4

\* Frames per byte stream fed to the decoder.
MaxFrames == 2

\* Upstream chunks per OpenAI stream.
MaxChunks == 3

\* Calls of the refresh endpoint.
MaxRefreshes == 4

\* Payloads per upstream body given to the collector.
MaxPayloads == 4

\* Messages of one parser call that are counted.
MaxEmitted == 3

\* Calls of AuthService.reload.
MaxReloads == 2


(***************************************************************************)
(* Map helpers (JavaScript Map as a function on its key set)               *)
(***************************************************************************)
EmptyMap == << >>

MapSet(m, k, v) == [ i \in (DOMAIN m) \cup {k} |-> IF i = k THEN v ELSE m[i] ]

MapDelete(m, k) == [ i \in (DOMAIN m) \ {k} |-> m[i] ]

MapSize(m) == Cardinality(DOMAIN m)

(***************************************************************************)
(* SSE events written to the client                                        *)
(***************************************************************************)
SSE(type, index, kind, id, name, text, stopReason, tokens) ==
  [ type |-> type, index |-> index, kind |-> kind, id |-> id, name |-> name,
    text |-> text, stop_reason |-> stopReason, output_tokens |-> tokens ]

MessageStartEv == SSE("message_start", -1, Absent, Absent, Absent, Absent, Absent, 0)

PingEv == SSE("ping", -1, Absent, Absent, Absent, Absent, Absent, 0)

TextBlockStartEv == SSE("content_block_start", 0, "text", Absent, Absent, "", Absent, 0)

TextDeltaEv(t) == SSE("content_block_delta", 0, "text_delta", Absent, Absent, t, Absent, 0)

ToolBlockStartEv(i, id, name) == SSE("content_block_start", i, "tool_use", id, name, Absent, Absent, 0)

InputJsonDeltaEv(i, frag) == SSE("content_block_delta", i, "input_json_delta", Absent, Absent, frag, Absent, 0)

BlockStopEv(i) == SSE("content_block_stop", i, Absent, Absent, Absent, Absent, Absent, 0)

MessageDeltaEv(reason, tokens) == SSE("message_delta", -1, Absent, Absent, Absent, Absent, reason, tokens)

MessageStopEv == SSE("message_stop", -1, Absent, Absent, Absent, Absent, Absent, 0)

ErrorChunk == SSE("error", -1, Absent, Absent, Absent, Absent, Absent, 0)

(***************************************************************************)
(* SSEStateManager (server/sse_state_manager.ts is not part of the         *)
(* sources; modelled from the design's validateAndSend rules).             *)
(*   blocks - getActiveBlocks(): index -> {started, stopped}               *)
(*   order  - insertion order of the Map's keys                            *)
(***************************************************************************)
SsmInit ==
  [ messageStarted |-> FALSE, messageDeltaSent |-> FALSE, messageEnded |-> FALSE,
    blocks |-> EmptyMap, order |-> << >> ]

BlockOpen(s, i) == i \in DOMAIN s.blocks /\ s.blocks[i].started /\ ~s.blocks[i].stopped

AllBlocksClosed(s) == \A i \in DOMAIN s.blocks : ~BlockOpen(s, i)

\* validateAndSend(event).valid
SsmValid(s, ev) ==
  /\ ~s.messageEnded
  /\ CASE ev.type = "message_start"       -> ~s.messageStarted
       [] ev.type = "content_block_start" -> ~BlockOpen(s, ev.index)
       [] ev.type = "content_block_delta" -> BlockOpen(s, ev.index)
       [] ev.type = "content_block_stop"  -> BlockOpen(s, ev.index)
       [] ev.type = "message_delta"       -> AllBlocksClosed(s) /\ ~s.messageDeltaSent
       [] ev.type = "message_stop"        -> AllBlocksClosed(s)
       [] OTHER                           -> TRUE

\* the state validateAndSend leaves behind for an accepted event
SsmAccept(s, ev) ==
  CASE ev.type = "message_start" -> [ s EXCEPT !.messageStarted = TRUE ]
    [] ev.type = "content_block_start" ->
         [ s EXCEPT !.blocks = MapSet(@, ev.index, [ started |-> TRUE, stopped |-> FALSE ]),
                    !.order  = IF ev.index \in DOMAIN s.blocks THEN @ ELSE Append(@, ev.index) ]
    [] ev.type = "content_block_stop" ->
         [ s EXCEPT !.blocks = MapSet(@, ev.index, [ started |-> TRUE, stopped |-> TRUE ]) ]
    [] ev.type = "message_delta" -> [ s EXCEPT !.messageDeltaSent = TRUE ]
    [] ev.type = "message_stop"  -> [ s EXCEPT !.messageEnded = TRUE ]
    [] OTHER -> s

\* validateAndSend(event): {valid} and the manager's next state
ValidateAndSend(s, ev) ==
  IF SsmValid(s, ev) THEN [ valid |-> TRUE, ssm |-> SsmAccept(s, ev) ]
                     ELSE [ valid |-> FALSE, ssm |-> s ]

(***************************************************************************)
(* StopReasonManager (server/stop_reason_manager.ts is not part of the     *)
(* sources; modelled from the design's stop-reason mapping).               *)
(***************************************************************************)
DetermineStopReason(hasActiveTools, hasCompletedTools) ==
  IF hasCompletedTools THEN "tool_use"
  ELSE IF hasActiveTools THEN "tool_use"
  ELSE "end_turn"

(***************************************************************************)
(* TokenEstimator.estimateTextTokens                                       *)
(***************************************************************************)
EstimateTextTokens(text) == CeilDiv4(Len(text))

(***************************************************************************)
(* StreamProcessorContext (server/stream_processor.ts)                     *)
(*                                                                         *)
(* A context value c carries the fields the methods read and write:        *)
(*   out, textBlockStarted, toolUseIdByBlockIndex, completedToolUseIds,    *)
(*   totalOutputTokens, ssm                                                *)
(***************************************************************************)
Ctx(out, text, map, completed, tokens, s) ==
  [ out |-> out, textBlockStarted |-> text, toolUseIdByBlockIndex |-> map,
    completedToolUseIds |-> completed, totalOutputTokens |-> tokens, ssm |-> s ]

\* controller.enqueue of one event after validateAndSend: `if (validation.valid) enqueue`
SendIfValid(c, ev) ==
  LET v == ValidateAndSend(c.ssm, ev)
  IN  [ c EXCEPT !.ssm = v.ssm, !.out = IF v.valid THEN Append(@, ev) ELSE @ ]

\* sendInitialEvents: message_start through validateAndSend, ping enqueued directly
SendInitialEvents(c) ==
  LET c1 == SendIfValid(c, MessageStartEv)
  IN  [ c1 EXCEPT !.out = Append(@, PingEv) ]

\* processToolUseStart
ProcessToolUseStart(c, ev) ==
  IF ev.kind = "tool_use" /\ Truthy(ev.id)
  THEN [ c EXCEPT !.toolUseIdByBlockIndex = MapSet(@, ev.index, ev.id) ]
  ELSE c

\* processToolUseStop recording every mapped tool as completed at the first stop
ProcessToolUseStop_CompletesAll(c, ev) ==
  IF ev.index \in DOMAIN c.toolUseIdByBlockIndex
  THEN [ c EXCEPT !.completedToolUseIds =
                     @ \cup { c.toolUseIdByBlockIndex[i] : i \in DOMAIN c.toolUseIdByBlockIndex },
                  !.toolUseIdByBlockIndex = MapDelete(@, ev.index) ]
  ELSE c

\* processToolUseStop: record the id as completed, then delete the mapping
ProcessToolUseStop(c, ev) ==
  IF ev.index \in DOMAIN c.toolUseIdByBlockIndex
  THEN [ c EXCEPT !.completedToolUseIds = @ \cup { c.toolUseIdByBlockIndex[ev.index] },
                  !.toolUseIdByBlockIndex = MapDelete(@, ev.index) ]
  ELSE c

\* accumulateTokens: the amount added to totalOutputTokens for one event
AccumulateTokens(ev) ==
  IF ev.type = "content_block_delta" THEN
       IF ev.kind = "text_delta" /\ Truthy(ev.text) THEN EstimateTextTokens(ev.text)
       ELSE IF ev.kind = "input_json_delta" /\ Truthy(ev.text) THEN CeilDiv4(Len(ev.text))
       ELSE 0
  ELSE IF ev.type = "content_block_start" /\ ev.kind = "tool_use" THEN
       12 + (IF Truthy(ev.name) THEN EstimateTextTokens(ev.name) ELSE 0)
  ELSE 0

\* processAnthropicEvent
ProcessAnthropicEvent(c, ev) ==
  LET c1 == CASE ev.type = "content_block_start" -> ProcessToolUseStart(c, ev)
              [] ev.type = "content_block_stop"  -> ProcessToolUseStop(c, ev)
              [] OTHER -> c
      c2 == SendIfValid(c1, ev)
  IN  [ c2 EXCEPT !.totalOutputTokens = @ + AccumulateTokens(ev) ]

\* the block index toolUseIdByBlockIndex holds for a tool-use id, or -1
LookupBlockIndex(map, toolUseId) ==
  IF \E i \in DOMAIN map : map[i] = toolUseId
  THEN CHOOSE i \in DOMAIN map : map[i] = toolUseId /\ \A j \in DOMAIN map : map[j] = toolUseId => i <= j
  ELSE -1

\* convertToAnthropicEvents: the events for one upstream event, and the fields it sets
ConvertToAnthropicEvents(c, event) ==
  LET hasText  == Truthy(event.content)
      textEvs  == IF hasText
                  THEN (IF c.textBlockStarted THEN << >> ELSE << TextBlockStartEv >>)
                       \o << TextDeltaEv(event.content) >>
                  ELSE << >>
      hasTool  == Truthy(event.toolUseId) /\ Truthy(event.name)
      found    == LookupBlockIndex(c.toolUseIdByBlockIndex, event.toolUseId)
      isNew    == found = -1
      blockIndex == IF isNew THEN MapSize(c.toolUseIdByBlockIndex) + 1 ELSE found
      toolEvs  == IF hasTool
                  THEN (IF isNew THEN << ToolBlockStartEv(blockIndex, event.toolUseId, event.name) >> ELSE << >>)
                       \o (IF event.inputKind = "string" /\ Truthy(event.input)
                           THEN << InputJsonDeltaEv(blockIndex, event.input) >> ELSE << >>)
                       \o (IF event.stop THEN << BlockStopEv(blockIndex) >> ELSE << >>)
                  ELSE << >>
  IN  [ events |-> textEvs \o toolEvs,
        ctx    |-> [ c EXCEPT !.textBlockStarted = @ \/ hasText,
                              !.toolUseIdByBlockIndex =
                                 IF hasTool /\ isNew THEN MapSet(@, blockIndex, event.toolUseId) ELSE @ ] ]

RECURSIVE ProcessAll(_, _)
ProcessAll(c, evs) ==
  IF evs = << >> THEN c ELSE ProcessAll(ProcessAnthropicEvent(c, Head(evs)), Tail(evs))

\* processMessage: a payload that is not JSON is skipped
ProcessMessage(c, event) ==
  IF ~event.json THEN c
  ELSE LET r == ConvertToAnthropicEvents(c, event)
       IN  ProcessAll(r.ctx, r.events)

\* sendFinalEvents, second part: content_block_stop for every block of getActiveBlocks()
\* that is started and not stopped, in the Map's iteration order
RECURSIVE CloseActiveBlocks(_, _)
CloseActiveBlocks(c, order) ==
  IF order = << >> THEN c
  ELSE LET i == Head(order)
           b == c.ssm.blocks[i]
       IN  CloseActiveBlocks(IF b.started /\ ~b.stopped THEN SendIfValid(c, BlockStopEv(i)) ELSE c,
                             Tail(order))

\* sendFinalEvents with message_stop sent before message_delta
SendFinalEvents_StopFirst(c) ==
  LET c1 == IF c.textBlockStarted THEN SendIfValid(c, BlockStopEv(0)) ELSE c
      c2 == CloseActiveBlocks(c1, c1.ssm.order)
      hasActiveTools    == MapSize(c2.toolUseIdByBlockIndex) > 0
      hasCompletedTools == c2.completedToolUseIds # {}
      stopReason == DetermineStopReason(hasActiveTools, hasCompletedTools)
      c3 == SendIfValid(c2, MessageStopEv)
  IN  SendIfValid(c3, MessageDeltaEv(stopReason, Max(1, c2.totalOutputTokens)))

\* sendFinalEvents with the text block's stop enqueued directly (as ping is),
\* not through validateAndSend
SendFinalEvents_TextStopDirect(c) ==
  LET c1 == IF c.textBlockStarted THEN [ c EXCEPT !.out = Append(@, BlockStopEv(0)) ] ELSE c
      c2 == CloseActiveBlocks(c1, c1.ssm.order)
      hasActiveTools    == MapSize(c2.toolUseIdByBlockIndex) > 0
      hasCompletedTools == c2.completedToolUseIds # {}
      stopReason == DetermineStopReason(hasActiveTools, hasCompletedTools)
      c3 == SendIfValid(c2, MessageDeltaEv(stopReason, Max(1, c2.totalOutputTokens)))
  IN  SendIfValid(c3, MessageStopEv)

\* sendFinalEvents with usage.output_tokens left at its initial value: neither
\* the counted tokens nor the minimum of 1 reach the message_delta
SendFinalEvents_NoUsage(c) ==
  LET c1 == IF c.textBlockStarted THEN SendIfValid(c, BlockStopEv(0)) ELSE c
      c2 == CloseActiveBlocks(c1, c1.ssm.order)
      hasActiveTools    == MapSize(c2.toolUseIdByBlockIndex) > 0
      hasCompletedTools == c2.completedToolUseIds # {}
      stopReason == DetermineStopReason(hasActiveTools, hasCompletedTools)
      c3 == SendIfValid(c2, MessageDeltaEv(stopReason, 0))
  IN  SendIfValid(c3, MessageStopEv)

\* sendFinalEvents with the text block stopped after the other blocks
SendFinalEvents_TextLast(c) ==
  LET c1 == CloseActiveBlocks(c, c.ssm.order)
      c2 == IF c1.textBlockStarted /\ BlockOpen(c1.ssm, 0) THEN SendIfValid(c1, BlockStopEv(0)) ELSE c1
      hasActiveTools    == MapSize(c2.toolUseIdByBlockIndex) > 0
      hasCompletedTools == c2.completedToolUseIds # {}
      outputTokens == IF c2.totalOutputTokens < 1 /\ (hasActiveTools \/ hasCompletedTools)
                      THEN 1 ELSE c2.totalOutputTokens
      stopReason == DetermineStopReason(hasActiveTools, hasCompletedTools)
      c3 == SendIfValid(c2, MessageDeltaEv(stopReason, Max(1, outputTokens)))
  IN  SendIfValid(c3, MessageStopEv)

\* sendFinalEvents deciding the stop reason from the tools still active only
SendFinalEvents_ActiveOnly(c) ==
  LET c1 == IF c.textBlockStarted THEN SendIfValid(c, BlockStopEv(0)) ELSE c
      c2 == CloseActiveBlocks(c1, c1.ssm.order)
      hasActiveTools    == MapSize(c2.toolUseIdByBlockIndex) > 0
      outputTokens == IF c2.totalOutputTokens < 1 /\ hasActiveTools THEN 1 ELSE c2.totalOutputTokens
      stopReason == DetermineStopReason(hasActiveTools, FALSE)
      c3 == SendIfValid(c2, MessageDeltaEv(stopReason, Max(1, outputTokens)))
  IN  SendIfValid(c3, MessageStopEv)

\* sendFinalEvents
SendFinalEvents(c) ==
  LET c1 == IF c.textBlockStarted THEN SendIfValid(c, BlockStopEv(0)) ELSE c
      c2 == CloseActiveBlocks(c1, c1.ssm.order)
      hasActiveTools    == MapSize(c2.toolUseIdByBlockIndex) > 0
      hasCompletedTools == c2.completedToolUseIds # {}
      outputTokens == IF c2.totalOutputTokens < 1 /\ (hasActiveTools \/ hasCompletedTools)
                      THEN 1 ELSE c2.totalOutputTokens
      stopReason == DetermineStopReason(hasActiveTools, hasCompletedTools)
      c3 == SendIfValid(c2, MessageDeltaEv(stopReason, Max(1, outputTokens)))
  IN  SendIfValid(c3, MessageStopEv)

\* cleanup(): clears the tool maps and the text flag (the parser reset has no state here)
Cleanup(c) ==
  [ c EXCEPT !.toolUseIdByBlockIndex = EmptyMap, !.completedToolUseIds = {},
             !.textBlockStarted = FALSE ]

(***************************************************************************)
(* handleStreamRequest: the ReadableStream's start(controller)             *)
(***************************************************************************)
\* Upstream events a stream may carry.  String fragments are sent for t1;
\* the other tools carry an empty or absent input.
StreamEvents ==
  { TextEv("hi"), GarbageEv }
  \cup { ToolEv(id, name, inp[1], inp[2], stop) :
           id \in ToolIds, name \in { Absent, "calc" }, inp \in { << "none", Absent >>, << "string", "" >> },
           stop \in BOOLEAN }
  \cup { ToolEv("t1", name, "string", frag, stop) :
           name \in { Absent, "calc" }, frag \in { FragA, FragB }, stop \in BOOLEAN }

\* event.__type of the exception upstream sends when the response is cut at
\* the content length limit
ContentLengthExceeded == "ContentLengthExceededException"

\* Upstream events of a stream that may be cut by an exception event.
ExcStreamEvents ==
  { TextEv("hi"), ExcEv(ContentLengthExceeded), ExcEv("ThrottlingException"), GarbageEv }
  \cup { ToolEv("t1", "calc", "string", "", stop) : stop \in BOOLEAN }

\* Scenario S2: the four upstream frames for tool t1.
S2Frames ==
  << ToolEv("t1", "calc", "string", "", FALSE),
     ToolEv("t1", Absent, "string", FragA, FALSE),
     ToolEv("t1", Absent, "string", FragB, FALSE),
     ToolEv("t1", Absent, "none", Absent, TRUE) >>

\* the monitor of a scenario: position p advances while the upstream follows frames
Follow(frames, p, e) ==
  IF p >= 0 /\ p < Len(frames) /\ e = frames[p + 1] THEN p + 1 ELSE -1

CurCtx ==
  Ctx(sout, textBlockStarted, toolUseIdByBlockIndex, completedToolUseIds, totalOutputTokens, ssm)

SetCtx(c) ==
  /\ sout' = c.out
  /\ textBlockStarted' = c.textBlockStarted
  /\ toolUseIdByBlockIndex' = c.toolUseIdByBlockIndex
  /\ completedToolUseIds' = c.completedToolUseIds
  /\ totalOutputTokens' = c.totalOutputTokens
  /\ ssm' = c.ssm

StreamInit ==
  /\ spc = "new"
  /\ sout = << >>
  /\ textBlockStarted = FALSE
  /\ toolUseIdByBlockIndex = EmptyMap
  /\ completedToolUseIds = {}
  /\ totalOutputTokens = 0
  /\ ssm = SsmInit
  /\ cleaned = FALSE
  /\ cancelled = FALSE
  /\ nRead = 0
  /\ s2pos = 0
  /\ sawException = FALSE

\* upstream answered 2xx with a body: start() runs sendInitialEvents while
\* the stream is constructed, then enters the read loop
StreamStart ==
  /\ spc = "new"
  /\ SetCtx(SendInitialEvents(CurCtx))
  /\ spc' = "reading"
  /\ UNCHANGED << cleaned, cancelled, nRead, s2pos, sawException >>
  /\ UNCHANGED otherThanStream

\* variant: the initial events are sent before the upstream answer is looked at
StreamUpstreamError_AfterInitialEvents(how) ==
  /\ spc = "new"
  /\ SetCtx(Cleanup([ SendInitialEvents(CurCtx) EXCEPT !.out = Append(@, ErrorChunk) ]))
  /\ spc' = "closed"
  /\ cancelled' = FALSE
  /\ cleaned' = TRUE
  /\ UNCHANGED << nRead, s2pos, sawException >>
  /\ UNCHANGED otherThanStream

\* upstream answered non-2xx (or without body): one error chunk, close,
\* cleanup.  how "unreadable": `await upstreamResponse.text()` rejects, the
\* catch calls controller.error; "gone": the client cancelled during that
\* await, controller.enqueue throws and controller.error does nothing
StreamUpstreamError(how) ==
  /\ spc = "new"
  /\ IF how = "answered"
     THEN /\ SetCtx(Cleanup([ CurCtx EXCEPT !.out = << ErrorChunk >> ]))
          /\ spc' = "closed"
     ELSE /\ SetCtx(Cleanup(CurCtx))
          /\ spc' = IF how = "gone" THEN "aborted" ELSE "errored"
  /\ cancelled' = (how = "gone")
  /\ cleaned' = TRUE
  /\ UNCHANGED << nRead, s2pos, sawException >>
  /\ UNCHANGED otherThanStream

\* the client cancels the response stream (it disconnected, or a write to
\* it failed); the stream has no cancel() callback, start() is not told
StreamClientCancel ==
  /\ spc = "reading"
  /\ ~cancelled
  /\ cancelled' = TRUE
  /\ UNCHANGED << spc, sout, textBlockStarted, toolUseIdByBlockIndex, completedToolUseIds,
                  totalOutputTokens, ssm, cleaned, nRead, s2pos, sawException >>
  /\ UNCHANGED otherThanStream

\* processEventStream: one decoded message is processed.  On a cancelled
\* stream the first controller.enqueue throws: catch (controller.error does
\* nothing on a cancelled stream) and cleanup; the fields of the abandoned
\* context are kept as they were before the message
StreamRead(e) ==
  /\ spc = "reading"
  /\ nRead < MaxEvents
  /\ IF cancelled /\ ProcessMessage(CurCtx, e).out # sout
     THEN /\ SetCtx(Cleanup(CurCtx))
          /\ spc' = "aborted"
          /\ cleaned' = TRUE
     ELSE /\ SetCtx(ProcessMessage(CurCtx, e))
          /\ UNCHANGED << spc, cleaned >>
  /\ nRead' = nRead + 1
  /\ s2pos' = Follow(S2Frames, s2pos, e)
  /\ sawException' = (sawException \/ e.exc = ContentLengthExceeded)
  /\ UNCHANGED cancelled
  /\ UNCHANGED otherThanStream

\* variant: start() without its finally block
StreamReadFails_NoFinally ==
  /\ spc = "reading"
  /\ spc' = "errored"
  /\ UNCHANGED << sout, textBlockStarted, toolUseIdByBlockIndex, completedToolUseIds,
                  totalOutputTokens, ssm, cleaned, cancelled, nRead, s2pos,
                  sawException >>
  /\ UNCHANGED otherThanStream

\* reader.read() or the parser throws: controller.error, cleanup
StreamReadFails ==
  /\ spc = "reading"
  /\ SetCtx(Cleanup(CurCtx))
  /\ spc' = "errored"
  /\ cleaned' = TRUE
  /\ UNCHANGED << cancelled, nRead, s2pos, sawException >>
  /\ UNCHANGED otherThanStream

\* upstream done: sendFinalEvents, controller.close, cleanup.  On a
\* cancelled stream the enqueue (or the close) throws: catch and cleanup
StreamEnd ==
  /\ spc = "reading"
  /\ IF cancelled
     THEN /\ SetCtx(Cleanup(CurCtx))
          /\ spc' = "aborted"
     ELSE /\ SetCtx(Cleanup(SendFinalEvents(CurCtx)))
          /\ spc' = "closed"
  /\ cleaned' = TRUE
  /\ UNCHANGED << cancelled, nRead, s2pos, sawException >>
  /\ UNCHANGED otherThanStream

StreamNext ==
  \/ StreamStart
  \/ \E how \in { "answered", "unreadable", "gone" } : StreamUpstreamError(how)
  \/ StreamClientCancel
  \/ \E e \in StreamEvents : StreamRead(e)
  \/ StreamReadFails
  \/ StreamEnd

\* the stream whose upstream may carry exception events
StreamExcNext ==
  \/ StreamStart
  \/ \E how \in { "answered", "unreadable", "gone" } : StreamUpstreamError(how)
  \/ StreamClientCancel
  \/ \E e \in ExcStreamEvents : StreamRead(e)
  \/ StreamReadFails
  \/ StreamEnd

(***************************************************************************)
(* Properties of the Anthropic stream                                      *)
(***************************************************************************)
IsBlockEv(e) == e.type \in { "content_block_start", "content_block_delta", "content_block_stop" }

CountType(out, t) == Cardinality({ k \in DOMAIN out : out[k].type = t })

ContentEmitted == \E k \in DOMAIN sout : IsBlockEv(sout[k])

\* C1: on a stream that emitted content, message_start occurs exactly once, no event
\* follows message_stop and message_delta is the event right before message_stop;
\* a stream that was closed (controller.close) ends with message_delta, message_stop.
C1_MessageFraming ==
  /\ CountType(sout, "message_start") <= 1
  /\ ContentEmitted => CountType(sout, "message_start") = 1
  /\ \A k \in DOMAIN sout :
       sout[k].type = "message_stop" =>
         /\ k = Len(sout)
         /\ k > 1 /\ sout[k - 1].type = "message_delta"
  /\ (spc = "closed" /\ ContentEmitted) => sout[Len(sout)].type = "message_stop"

\* a closed stream with content blocks, framed by message_start ... message_delta, message_stop
C1_Witness ==
  /\ spc = "closed"
  /\ ContentEmitted
  /\ Len(sout) >= 6
  /\ sout[Len(sout)].type = "message_stop"

\* C2: every content_block_stop index=i has an earlier content_block_start index=i
\* with no content_block_stop index=i in between.
C2_StopHasOpenStart ==
  \A k \in DOMAIN sout :
    sout[k].type = "content_block_stop" =>
      \E j \in 1..(k - 1) :
        /\ sout[j].type = "content_block_start"
        /\ sout[j].index = sout[k].index
        /\ \A m \in (j + 1)..(k - 1) :
             ~(sout[m].type = "content_block_stop" /\ sout[m].index = sout[k].index)

\* a tool block stopped by its upstream stop, the text block closed at end of stream
C2_Witness ==
  /\ spc = "closed"
  /\ \E k \in DOMAIN sout : sout[k].type = "content_block_stop" /\ sout[k].index = 0
  /\ \E k \in DOMAIN sout : sout[k].type = "content_block_stop" /\ sout[k].index = 1
                              /\ sout[k + 1].type # "message_delta"
                              /\ sout[k + 1].type # "content_block_stop"

\* C3: while block i is open (after its content_block_start, before its
\* content_block_stop) no content-block event with another index is emitted.
C3_BlocksDoNotInterleave ==
  \A j \in DOMAIN sout : \A m \in DOMAIN sout :
    ( /\ j < m
      /\ sout[j].type = "content_block_start"
      /\ \A n \in (j + 1)..(m - 1) :
           ~(sout[n].type = "content_block_stop" /\ sout[n].index = sout[j].index)
      /\ IsBlockEv(sout[m]) )
    => sout[m].index = sout[j].index

\* the emitted events without the token count of message_delta
Shape(out) == [ k \in DOMAIN out |-> [ out[k] EXCEPT !.output_tokens = 0 ] ]

S2Expected ==
  << MessageStartEv, PingEv,
     ToolBlockStartEv(1, "t1", "calc"),
     InputJsonDeltaEv(1, FragA),
     InputJsonDeltaEv(1, FragB),
     BlockStopEv(1),
     MessageDeltaEv("tool_use", 0),
     MessageStopEv >>

\* C9: for the four upstream frames of scenario S2 the stream is message_start, ping,
\* content_block_start 1 (tool_use t1/calc), two input_json_delta 1 with the two
\* fragments, content_block_stop 1, message_delta tool_use, message_stop.
C9_ScenarioS2 ==
  (spc = "closed" /\ s2pos = 4) => Shape(sout) = S2Expected

(***************************************************************************)
(* RobustEventStreamParser (parser/robust_parser.ts)                       *)
(*                                                                         *)
(* Bytes are integers 0..255, buffers are sequences of bytes.              *)
(***************************************************************************)
MIN_MESSAGE_SIZE == 16

MAX_MESSAGE_SIZE == 16777216

\* RobustEventStreamParser.maxErrors
DefaultMaxErrors == 100

\* A length too large to matter: getUint32 values from 2^30 on are read as this
\* value.  Lengths are only compared with MIN_MESSAGE_SIZE, MAX_MESSAGE_SIZE
\* and buffer lengths, and used as slice ends, which clamp to the buffer.
HugeLength == 64 * 16777216

Min(a, b) == IF a <= b THEN a ELSE b

\* Uint8Array.slice(from, to): clamped to the array
Slice(b, from, to) ==
  LET hi == Min(to, Len(b))
  IN  IF from >= hi THEN << >> ELSE SubSeq(b, from + 1, hi)

\* DataView.getUint32(off, false) (big-endian)
GetUint32(b, off) ==
  IF b[off + 1] >= 64 THEN HugeLength
  ELSE b[off + 1] * 16777216 + b[off + 2] * 65536 + b[off + 3] * 256 + b[off + 4]

\* DataView.getUint16(off, false)
GetUint16(b, off) == b[off + 1] * 256 + b[off + 2]

\* parseHeaderValue: threw is TRUE when the DataView read is out of bounds
\* (RangeError); the value keeps its type tag and the bytes it is read from
ParseHeaderValue(valueType, data) ==
  LET need == CASE valueType = 2 -> 1
                [] valueType = 3 -> 2
                [] valueType = 4 -> 4
                [] valueType \in { 5, 8 } -> 8
                [] OTHER -> 0
      kind == CASE valueType = 0 -> "true"
                [] valueType = 1 -> "false"
                [] valueType \in { 2, 3, 4, 5, 8 } -> "number"
                [] valueType = 7 -> "string"
                [] valueType = 9 -> IF Len(data) = 16 THEN "uuid" ELSE "string"
                [] OTHER -> "bytes"
  IN  IF Len(data) < need
      THEN [ threw |-> TRUE, value |-> [ kind |-> "none", bytes |-> << >> ] ]
      ELSE [ threw |-> FALSE,
             value |-> [ kind |-> kind,
                         bytes |-> IF kind \in { "true", "false" } THEN << >>
                                   ELSE IF kind = "number" THEN SubSeq(data, 1, need)
                                   ELSE data ] ]

\* the headers parseHeaders returns for empty header data
DefaultHeaders == [ defaulted |-> TRUE, fields |-> EmptyMap ]

\* parseHeaders, the loop from `offset`: every header carries name length, name,
\* value type, a 2-byte value length and the value
RECURSIVE ParseHeadersFrom(_, _, _)
ParseHeadersFrom(data, offset, fields) ==
  IF offset >= Len(data) THEN [ threw |-> FALSE, fields |-> fields ]
  ELSE
    LET nameLength == data[offset + 1]
        o1 == offset + 1
    IN  IF o1 + nameLength > Len(data) THEN [ threw |-> FALSE, fields |-> fields ]
        ELSE
          LET name == Slice(data, o1, o1 + nameLength)
              o2 == o1 + nameLength
          IN  IF o2 + 1 > Len(data) THEN [ threw |-> FALSE, fields |-> fields ]
              ELSE
                LET valueType == data[o2 + 1]
                    o3 == o2 + 1
                IN  IF o3 + 2 > Len(data) THEN [ threw |-> FALSE, fields |-> fields ]
                    ELSE
                      LET valueLength == GetUint16(data, o3)
                          o4 == o3 + 2
                      IN  IF o4 + valueLength > Len(data) THEN [ threw |-> FALSE, fields |-> fields ]
                          ELSE
                            LET v == ParseHeaderValue(valueType, Slice(data, o4, o4 + valueLength))
                            IN  IF v.threw THEN [ threw |-> TRUE, fields |-> fields ]
                                ELSE ParseHeadersFrom(data, o4 + valueLength,
                                                      MapSet(fields, name, v.value))

\* parseHeaders
ParseHeaders(data) ==
  IF Len(data) = 0 THEN [ threw |-> FALSE, headers |-> DefaultHeaders ]
  ELSE LET r == ParseHeadersFrom(data, 0, EmptyMap)
       IN  [ threw |-> r.threw, headers |-> [ defaulted |-> FALSE, fields |-> r.fields ] ]

\* parseSingleMessage on a slice of totalLength bytes (so neither the short-data
\* return nor the length-mismatch throw can happen)
ParseSingleMessage(data) ==
  LET totalLength  == GetUint32(data, 0)
      headerLength == GetUint32(data, 4)
      headerData   == Slice(data, 12, 12 + headerLength)
      payloadData  == Slice(data, 12 + headerLength, totalLength - 4)
      h == ParseHeaders(headerData)
  IN  [ threw |-> h.threw, message |-> [ headers |-> h.headers, payload |-> payloadData ] ]

\* a parser: buffer, errorCount, maxErrors
Parser(buffer, errorCount, maxErrors) ==
  [ buffer |-> buffer, errorCount |-> errorCount, maxErrors |-> maxErrors ]

NewParser == Parser(<< >>, 0, DefaultMaxErrors)

\* variant: a frame of MAX_MESSAGE_SIZE bytes is refused
LengthOutOfRange_RefusesMax(totalLength) ==
  totalLength < MIN_MESSAGE_SIZE \/ totalLength >= MAX_MESSAGE_SIZE

\* totalLength < MIN_MESSAGE_SIZE || totalLength > MAX_MESSAGE_SIZE
LengthOutOfRange(totalLength) ==
  totalLength < MIN_MESSAGE_SIZE \/ totalLength > MAX_MESSAGE_SIZE

\* variant: a length out of range discards the whole buffer
ResyncSkip_WholeBuffer(buffer) == Len(buffer)

\* The turns of parseStream's loop that take `slice(1); errorCount++; continue`
\* in a row: the loop drops one byte at a time until fewer than
\* MIN_MESSAGE_SIZE bytes are left or the length read is in range.  This is
\* the number of bytes dropped.
ResyncSkip(buffer) ==
  LET stops == { i \in 0..Len(buffer) :
                   \/ Len(buffer) - i < MIN_MESSAGE_SIZE
                   \/ ~LengthOutOfRange(GetUint32(buffer, i)) }
  IN  CHOOSE i \in stops : \A j \in stops : i <= j

\* parseStream's while loop: the parser, the messages so far, and whether
\* "Too many errors" was thrown
RECURSIVE ParseLoop(_, _)
ParseLoop(p, messages) ==
  IF Len(p.buffer) < MIN_MESSAGE_SIZE THEN [ parser |-> p, messages |-> messages, threw |-> FALSE ]
  ELSE
    LET totalLength == GetUint32(p.buffer, 0)
        skip == ResyncSkip(p.buffer)
    IN  IF LengthOutOfRange(totalLength)
        THEN ParseLoop([ p EXCEPT !.buffer = Slice(@, skip, Len(@)), !.errorCount = @ + skip ],
                       messages)
        ELSE IF Len(p.buffer) < totalLength
        THEN [ parser |-> p, messages |-> messages, threw |-> FALSE ]
        ELSE
          LET m  == ParseSingleMessage(Slice(p.buffer, 0, totalLength))
              p1 == [ p EXCEPT !.buffer = Slice(@, totalLength, Len(@)) ]
          IN  IF ~m.threw THEN ParseLoop(p1, Append(messages, m.message))
              ELSE LET p2 == [ p1 EXCEPT !.errorCount = @ + 1 ]
                   IN  IF p2.errorCount >= p2.maxErrors
                       THEN [ parser |-> p2, messages |-> << >>, threw |-> TRUE ]
                       ELSE ParseLoop(p2, messages)

\* variant: the bytes left from earlier chunks are not kept
ParseStream_ForgetsRest(p, data) == ParseLoop([ p EXCEPT !.buffer = data ], << >>)

\* parseStream(data)
ParseStream(p, data) == ParseLoop([ p EXCEPT !.buffer = @ \o data ], << >>)

\* reset()
ParserReset(p) == [ p EXCEPT !.buffer = << >>, !.errorCount = 0 ]

(***************************************************************************)
(* Frames as upstream encodes them                                         *)
(***************************************************************************)
\* big-endian u32 of n
U32BE(n) == << n \div 16777216, (n \div 65536) % 256, (n \div 256) % 256, n % 256 >>

\* one frame: prelude (total length, headers length, prelude CRC), headers,
\* payload, message CRC (the CRCs are not read by the parser)
Frame(headerBytes, payload) ==
  U32BE(16 + Len(headerBytes) + Len(payload)) \o U32BE(Len(headerBytes)) \o << 0, 0, 0, 0 >>
    \o headerBytes \o payload \o << 0, 0, 0, 0 >>

\* a header with a 2-byte value length, as parseHeaders reads it
Header(name, valueType, value) ==
  << Len(name) >> \o name \o << valueType, Len(value) \div 256, Len(value) % 256 >> \o value

(***************************************************************************)
(* The decoder fed a byte stream in chunks                                 *)
(***************************************************************************)
RECURSIVE Flatten(_)
Flatten(frames) == IF frames = << >> THEN << >> ELSE Head(frames) \o Flatten(Tail(frames))

\* Frames of a valid stream: empty headers; a utf8 header; a byte-array header
\* and a bool header with empty values.
DecFrames ==
  { Frame(<< >>, << 1, 2 >>),
    Frame(Header(<< 58, 101 >>, 7, << 97, 98 >>), << 3, 4, 5 >>),
    Frame(Header(<< 58, 98 >>, 6, << 7 >>) \o Header(<< 116 >>, 0, << >>), << 6 >>),
    Frame(<< >>, << >>) }

DecStreams == UNION { [ 1..n -> DecFrames ] : n \in 1..MaxFrames }

\* where byte offset pos of the stream lies inside its frame
RECURSIVE RegionOf(_, _)
RegionOf(frames, pos) ==
  IF frames = << >> THEN "edge"
  ELSE LET f  == Head(frames)
           hl == GetUint32(f, 4)
       IN  IF pos >= Len(f) THEN RegionOf(Tail(frames), pos - Len(f))
           ELSE IF pos = 0 THEN "edge"
           ELSE IF pos >= 1 /\ pos <= 11 THEN "prelude"
           ELSE IF pos > 12 /\ pos < 12 + hl THEN "headers"
           ELSE IF pos > 12 + hl /\ pos < Len(f) - 4 THEN "payload"
           ELSE "edge"

DecIdle ==
  /\ dframes = << >>
  /\ dpos = 0
  /\ dparser = NewParser
  /\ dmsgs = << >>
  /\ dthrew = FALSE
  /\ dcuts = {}

DecInit ==
  /\ dframes \in DecStreams
  /\ dpos = 0
  /\ dparser = NewParser
  /\ dmsgs = << >>
  /\ dthrew = FALSE
  /\ dcuts = {}

\* the next k bytes arrive as one chunk: parseStream(chunk)
DecFeed(k) ==
  /\ ~dthrew
  /\ dpos + k <= Len(Flatten(dframes))
  /\ LET r == ParseStream(dparser, SubSeq(Flatten(dframes), dpos + 1, dpos + k))
     IN  /\ dparser' = r.parser
         /\ dmsgs' = dmsgs \o r.messages
         /\ dthrew' = r.threw
  /\ dpos' = dpos + k
  /\ dcuts' = IF dpos + k < Len(Flatten(dframes))
              THEN dcuts \cup ({ RegionOf(dframes, dpos + k) } \ { "edge" })
              ELSE dcuts
  /\ UNCHANGED dframes
  /\ UNCHANGED otherThanDec

DecNext == \E k \in 1..(MaxFrames * 32) : DecFeed(k)

\* C6: a valid frame stream delivered in chunks of any sizes yields, in
\* total, the messages (and the parser state) that parseStream yields when
\* the whole stream is delivered as one chunk.
C6_ChunkingInvariance ==
  dpos = Len(Flatten(dframes)) =>
    LET whole == ParseStream(NewParser, Flatten(dframes))
    IN  /\ dthrew = whole.threw
        /\ dmsgs = whole.messages
        /\ dparser = whole.parser
        /\ Len(dmsgs) = Len(dframes)

\* two frames delivered with chunk boundaries inside a prelude, inside the
\* headers and inside a payload
C6_Witness ==
  /\ dpos = Len(Flatten(dframes))
  /\ Len(dframes) = 2
  /\ Len(dmsgs) = 2
  /\ dcuts = { "prelude", "headers", "payload" }

(***************************************************************************)
(* OpenAI stream projector (OpenAIStreamProcessorContext)                  *)
(***************************************************************************)
\* One record enqueued on the controller: a chat.completion.chunk or the
\* literal "[DONE]" record.  finish_reason Absent is JSON null.
OpenAIChunk(kind, content, toolIndex, toolId, toolName, arguments, finish_reason) ==
  [ kind |-> kind, content |-> content, toolIndex |-> toolIndex, toolId |-> toolId,
    toolName |-> toolName, arguments |-> arguments, finish_reason |-> finish_reason ]

RoleChunk == OpenAIChunk("role", Absent, -1, Absent, Absent, Absent, Absent)

ContentChunk(c) == OpenAIChunk("content", c, -1, Absent, Absent, Absent, Absent)

ToolStartChunk(idx, id, name) == OpenAIChunk("tool_start", Absent, idx, id, name, "", Absent)

ToolDeltaChunk(idx, args) == OpenAIChunk("tool_delta", Absent, idx, Absent, Absent, args, Absent)

FinalChunk(reason) == OpenAIChunk("final", Absent, -1, Absent, Absent, Absent, reason)

DoneRecord == OpenAIChunk("[DONE]", Absent, -1, Absent, Absent, Absent, Absent)

\* Payload documents upstream sends, by their bytes; every other payload
\* (the empty one included) is not JSON.  This is TextDecoder.decode, then
\* JSON.parse, then `payload.assistantResponseEvent || payload`.
TextPayload == << 1 >>

ToolStartPayload == << 2 >>

ToolInputPayload == << 3 >>

ContentLengthPayload == << 4 >>

ThrottlingPayload == << 5 >>

JsonParsePayload(payload) ==
  IF payload = TextPayload THEN TextEv("hi")
  ELSE IF payload = ToolStartPayload THEN ToolEv("t1", "calc", "none", Absent, FALSE)
  ELSE IF payload = ToolInputPayload THEN ToolEv("t1", "calc", "string", FragA, FALSE)
  ELSE IF payload = ContentLengthPayload THEN ExcEv("ContentLengthExceededException")
  ELSE IF payload = ThrottlingPayload THEN ExcEv("ThrottlingException")
  ELSE GarbageEv

\* the processor's fields and the controller's queue
OpenAICtx(out, parser, map, next, saw, forced) ==
  [ out |-> out, binaryParser |-> parser, toolIndexByToolUseId |-> map,
    nextToolIndex |-> next, sawToolUse |-> saw, forcedFinishReason |-> forced ]

\* constructor
NewOpenAICtx == OpenAICtx(<< >>, NewParser, EmptyMap, 0, FALSE, Absent)

\* sendInitialEvent
SendInitialEvent(c) == [ c EXCEPT !.out = Append(@, RoleChunk) ]

\* exceptionType === "ContentLengthExceededException" ||
\* exceptionType?.includes("CONTENT_LENGTH_EXCEEDS")
IsContentLengthExceeded(exceptionType) ==
  exceptionType \in { "ContentLengthExceededException", "CONTENT_LENGTH_EXCEEDS_THRESHOLD" }

\* handleExceptionEvent: [ctx, handled]
HandleExceptionEvent(c, event) ==
  IF IsContentLengthExceeded(event.exc)
  THEN [ ctx |-> [ c EXCEPT !.forcedFinishReason = "length",
                            !.out = @ \o << FinalChunk("length"), DoneRecord >> ],
         handled |-> TRUE ]
  ELSE [ ctx |-> c, handled |-> FALSE ]

\* processMessage, `if (event.content)`: the content chunk
OpenAIContent(c, event) ==
  IF Truthy(event.content)
  THEN [ c EXCEPT !.out = Append(@, ContentChunk(event.content)) ]
  ELSE c

\* processMessage, `if (!this.toolIndexByToolUseId.has(toolUseId))`: the
\* tool index is assigned and the tool start chunk sent
OpenAIToolStart(c, event) ==
  IF event.toolUseId \notin DOMAIN c.toolIndexByToolUseId
  THEN [ c EXCEPT !.toolIndexByToolUseId = MapSet(@, event.toolUseId, c.nextToolIndex),
                  !.nextToolIndex = @ + 1,
                  !.sawToolUse = TRUE,
                  !.out = Append(@, ToolStartChunk(c.nextToolIndex, event.toolUseId, event.name)) ]
  ELSE c

\* processMessage, `if (event.input && typeof event.input === "string")`
OpenAIToolDelta(c, event) ==
  IF event.inputKind = "string" /\ Truthy(event.input)
  THEN [ c EXCEPT !.out = Append(@, ToolDeltaChunk(c.toolIndexByToolUseId[event.toolUseId], event.input)) ]
  ELSE c

\* processMessage after JSON.parse: [ctx, terminate]
OpenAIProcessEvent(c, event) ==
  IF ~event.json THEN [ ctx |-> c, terminate |-> FALSE ]
  ELSE IF HandleExceptionEvent(c, event).handled
  THEN [ ctx |-> HandleExceptionEvent(c, event).ctx, terminate |-> TRUE ]
  ELSE IF Truthy(event.toolUseId) /\ Truthy(event.name)
  THEN [ ctx |-> OpenAIToolDelta(OpenAIToolStart(OpenAIContent(c, event), event), event),
         terminate |-> FALSE ]
  ELSE [ ctx |-> OpenAIContent(c, event), terminate |-> FALSE ]

\* processMessage: [ctx, terminate]
OpenAIProcessMessage(c, message) == OpenAIProcessEvent(c, JsonParsePayload(message.payload))

\* variant: the loop has no `if (shouldTerminate) break`
RECURSIVE ProcessMessages_NoBreak(_, _)
ProcessMessages_NoBreak(c, messages) ==
  IF messages = << >> THEN [ ctx |-> c, terminate |-> FALSE ]
  ELSE LET r    == OpenAIProcessMessage(c, Head(messages))
           rest == ProcessMessages_NoBreak(r.ctx, Tail(messages))
       IN  [ ctx |-> rest.ctx, terminate |-> r.terminate \/ rest.terminate ]

\* the loop `for (const message of messages)` of processEventStream,
\* which stops at the first message that asks to terminate
RECURSIVE ProcessMessages(_, _)
ProcessMessages(c, messages) ==
  IF messages = << >> THEN [ ctx |-> c, terminate |-> FALSE ]
  ELSE IF OpenAIProcessMessage(c, Head(messages)).terminate
  THEN OpenAIProcessMessage(c, Head(messages))
  ELSE ProcessMessages(OpenAIProcessMessage(c, Head(messages)).ctx, Tail(messages))

\* sendFinalEvent
SendFinalEvent(c) ==
  LET finishReason == IF c.forcedFinishReason # Absent THEN c.forcedFinishReason
                      ELSE IF c.sawToolUse THEN "tool_calls" ELSE "stop"
  IN  [ c EXCEPT !.out = @ \o << FinalChunk(finishReason), DoneRecord >> ]

\* cleanup
OpenAICleanup(c) ==
  [ c EXCEPT !.binaryParser = ParserReset(@), !.toolIndexByToolUseId = EmptyMap ]

\* start() after the reader returned done (or the loop was left):
\* sendFinalEvent, controller.close(), finally cleanup
OpenAIFinish(c) == [ ctx |-> OpenAICleanup(SendFinalEvent(c)), pc |-> "closed" ]

\* start() when anything throws: controller.error, finally cleanup
OpenAIFail(c) == [ ctx |-> OpenAICleanup(c), pc |-> "errored" ]

\* the read loop after the messages of a chunk were processed
OpenAIAfterMessages(r) ==
  IF r.terminate THEN OpenAIFinish(r.ctx) ELSE [ ctx |-> r.ctx, pc |-> "reading" ]

\* the read loop after parseStream returned or threw
OpenAIAfterParse(c, parsed) ==
  IF parsed.threw THEN OpenAIFail([ c EXCEPT !.binaryParser = parsed.parser ])
  ELSE OpenAIAfterMessages(ProcessMessages([ c EXCEPT !.binaryParser = parsed.parser ],
                                           parsed.messages))

\* one turn of the read loop on a chunk, to the next await or to the end
OpenAIReadChunk(c, value) == OpenAIAfterParse(c, ParseStream(c.binaryParser, value))

(***************************************************************************)
(* handleOpenAIStreamRequest driven by upstream chunks                     *)
(***************************************************************************)
TextFrame == Frame(<< >>, TextPayload)

ToolStartFrame == Frame(<< >>, ToolStartPayload)

ToolInputFrame == Frame(<< >>, ToolInputPayload)

ContentLengthFrame == Frame(<< >>, ContentLengthPayload)

ThrottlingFrame == Frame(<< >>, ThrottlingPayload)

NotJsonFrame == Frame(<< >>, << >>)

\* a frame whose one header is a SHORT with an empty value
BadHeaderFrame == Frame(Header(<< >>, 3, << >>), << >>)

\* bytes that are no frame: every offset reads a length above MAX_MESSAGE_SIZE
Noise(n) == [ i \in 1..n |-> 255 ]

\* garbage that spends the parser's whole error budget
LongGarbage == Noise(DefaultMaxErrors - 1) \o BadHeaderFrame

\* Chunks upstream may deliver.  excEnd is the offset just after the
\* chunk's ContentLengthExceededException frame (0: it has none).
Chunk(bytes, excEnd) == [ bytes |-> bytes, excEnd |-> excEnd ]

OpenAIChunks ==
  { Chunk(TextFrame, 0),
    Chunk(ToolStartFrame, 0),
    Chunk(ToolInputFrame, 0),
    Chunk(ThrottlingFrame, 0),
    Chunk(NotJsonFrame, 0),
    Chunk(Noise(MIN_MESSAGE_SIZE), 0),
    Chunk(ContentLengthFrame, Len(ContentLengthFrame)),
    Chunk(TextFrame \o ContentLengthFrame, Len(TextFrame \o ContentLengthFrame)),
    Chunk(ContentLengthFrame \o TextFrame, Len(ContentLengthFrame)),
    Chunk(ContentLengthFrame \o LongGarbage, Len(ContentLengthFrame)) }

OpenAICur ==
  OpenAICtx(oout, binaryParser, toolIndexByToolUseId, nextToolIndex, sawToolUse, forcedFinishReason)

OpenAISet(c) ==
  /\ oout' = c.out
  /\ binaryParser' = c.binaryParser
  /\ toolIndexByToolUseId' = c.toolIndexByToolUseId
  /\ nextToolIndex' = c.nextToolIndex
  /\ sawToolUse' = c.sawToolUse
  /\ forcedFinishReason' = c.forcedFinishReason

\* the processor and start() move on to r
OpenAIGoto(r) == OpenAISet(r.ctx) /\ opc' = r.pc

NoRef == [ set |-> FALSE, out |-> << >>, pc |-> "new" ]

\* the stream's first ContentLengthExceededException event ends at offset n
\* of the chunk: the bytes to there decode, with nothing left over, to
\* messages of which the last, and no earlier one, is that event
EndsWithException(r) ==
  /\ ~r.threw
  /\ r.parser.buffer = << >>
  /\ r.messages # << >>
  /\ \A k \in DOMAIN r.messages :
       IsContentLengthExceeded(JsonParsePayload(r.messages[k].payload).exc)
         <=> k = Len(r.messages)

ExceptionEndsAt(parser, bytes, n) ==
  n > 0 /\ EndsWithException(ParseStream(parser, SubSeq(bytes, 1, n)))

\* what the handler sends when the upstream ends right after offset n
RefOf(r) == [ set |-> TRUE, out |-> r.ctx.out, pc |-> r.pc ]

ThenEnd(r) == IF r.pc = "reading" THEN OpenAIFinish(r.ctx) ELSE r

OutputIfEndedAt(c, bytes, n) == RefOf(ThenEnd(OpenAIReadChunk(c, SubSeq(bytes, 1, n))))

OpenAIIdle ==
  /\ opc = "new"
  /\ oout = << >>
  /\ binaryParser = NewParser
  /\ toolIndexByToolUseId = EmptyMap
  /\ nextToolIndex = 0
  /\ sawToolUse = FALSE
  /\ forcedFinishReason = Absent
  /\ onRead = 0
  /\ oref = NoRef

OpenAIInit == OpenAIIdle

\* upstream answered with a 2xx and a body: the stream starts, sendInitialEvent
OpenAIStart ==
  /\ opc = "new"
  /\ opc' = "reading"
  /\ OpenAISet(SendInitialEvent(NewOpenAICtx))
  /\ UNCHANGED << onRead, oref >>
  /\ UNCHANGED otherThanOpenAI

\* upstream answered non-2xx: a JSON error response, no stream
OpenAIUpstreamError ==
  /\ opc = "new"
  /\ opc' = "rejected"
  /\ UNCHANGED << oout, binaryParser, toolIndexByToolUseId, nextToolIndex, sawToolUse,
                  forcedFinishReason, onRead, oref >>
  /\ UNCHANGED otherThanOpenAI

\* reader.read() yields a chunk
OpenAIRead(ch) ==
  /\ opc = "reading"
  /\ onRead < MaxChunks
  /\ OpenAIGoto(OpenAIReadChunk(OpenAICur, ch.bytes))
  /\ onRead' = onRead + 1
  /\ oref' = IF ~oref.set /\ ExceptionEndsAt(binaryParser, ch.bytes, ch.excEnd)
             THEN OutputIfEndedAt(OpenAICur, ch.bytes, ch.excEnd)
             ELSE oref
  /\ UNCHANGED otherThanOpenAI

\* reader.read() rejects
OpenAIReadFails ==
  /\ opc = "reading"
  /\ OpenAIGoto(OpenAIFail(OpenAICur))
  /\ UNCHANGED << onRead, oref >>
  /\ UNCHANGED otherThanOpenAI

\* reader.read() yields done
OpenAIEnd ==
  /\ opc = "reading"
  /\ OpenAIGoto(OpenAIFinish(OpenAICur))
  /\ UNCHANGED << onRead, oref >>
  /\ UNCHANGED otherThanOpenAI

OpenAINext ==
  \/ OpenAIStart
  \/ OpenAIUpstreamError
  \/ \E ch \in OpenAIChunks : OpenAIRead(ch)
  \/ OpenAIReadFails
  \/ OpenAIEnd

\* C7: an OpenAI stream that is closed normally holds exactly one chunk
\* with a non-null finish_reason, immediately followed by exactly one
\* [DONE] record, which is the last record.
C7_OneFinishThenDone ==
  opc = "closed" =>
    /\ Cardinality({ k \in DOMAIN oout : oout[k].finish_reason # Absent }) = 1
    /\ Cardinality({ k \in DOMAIN oout : oout[k] = DoneRecord }) = 1
    /\ Len(oout) >= 2
    /\ oout[Len(oout)] = DoneRecord
    /\ oout[Len(oout) - 1].finish_reason # Absent

\* C8: once the upstream has carried a ContentLengthExceededException
\* event, the finished output is the output of the stream that ends right
\* after that event, whatever bytes follow it.
C8_ContinuationIrrelevant ==
  (opc \in { "closed", "errored" } /\ oref.set) =>
    /\ oout = oref.out
    /\ opc = oref.pc

\* C21: once the ContentLengthExceededException event has been processed
\* (its final chunk is out) no chunk is read from upstream any more, and no
\* message is processed: nothing but final chunks and [DONE] follows it.
C21_NothingAfterContentLength ==
  /\ [](\A k \in DOMAIN oout, j \in DOMAIN oout :
          (k < j /\ oout[k] = FinalChunk("length")) => oout[j].kind \in { "final", "[DONE]" })
  /\ [][ forcedFinishReason = "length" => (onRead' = onRead /\ oout' = oout) ]_vars

\* the event was processed while upstream could still deliver chunks, and
\* the stream is closed
C21_Witness ==
  /\ opc = "closed"
  /\ forcedFinishReason = "length"
  /\ onRead >= 1
  /\ onRead < MaxChunks

(***************************************************************************)
(* Credential pool (TokenManager with quota)                               *)
(***************************************************************************)
\* this.configs
Configs == << "config0", "config1", "config2" >>

\* configs.length
NumConfigs == Len(Configs)

ConfigIndexes == 0..(NumConfigs - 1)

\* Requests that ask the pool for a token.
Callers == { "a", "b", "c" }

\* calculateAvailableCount(usageInfo) as the quota probe may report it
Quotas == { 0, 1, 3 }

\* tokenCache.get(i) is undefined
NoCache == [ present |-> FALSE, token |-> 0, expired |-> FALSE, available |-> 0 ]

\* a TokenCache entry; expired is isTokenExpired(token) at the present time
CacheEntry(token, available) ==
  [ present |-> TRUE, token |-> token, expired |-> FALSE, available |-> available ]

\* cached && !this.isTokenExpired(cached.token)
IsFresh(cached) == cached.present /\ ~cached.expired

\* The TokenManager's fields.  promises are the refresh promises ever
\* created, by id (1, 2, ...); refreshLocks[i] is a promise id, 0 for none.
Pool(index, cache, exh, locks, proms) ==
  [ currentIndex |-> index, tokenCache |-> cache, exhausted |-> exh,
    refreshLocks |-> locks, promises |-> proms ]

\* A refresh promise: the async function of getOrRefreshToken running
\* performRefresh.  stage "refreshing": refreshToken(config) is outstanding;
\* "probing": checkUsageLimits(token) is outstanding; then "resolved" or
\* "rejected".
RefreshPromise(configIndex, stage, token) ==
  [ configIndex |-> configIndex, stage |-> stage, token |-> token ]

Pending(promise) == promise.stage \in { "refreshing", "probing" }

\* What a caller of getOrRefreshToken awaits: promise 0 is the value the
\* fast path returns
Awaited(pool, promise, creator, token) ==
  [ pool |-> pool, promise |-> promise, creator |-> creator, token |-> token ]

\* variant: the lock of a refresh in progress is not looked at
GetOrRefreshToken_IgnoresLock(pool, configIndex) ==
  IF IsFresh(pool.tokenCache[configIndex])
  THEN Awaited(pool, 0, FALSE, pool.tokenCache[configIndex].token)
  ELSE Awaited([ pool EXCEPT !.promises = Append(@, RefreshPromise(configIndex, "refreshing", 0)),
                             !.refreshLocks[configIndex] = Len(pool.promises) + 1 ],
               Len(pool.promises) + 1, TRUE, 0)

\* getOrRefreshToken up to its await: the fast path; or the refresh in
\* progress; or a new refresh promise, which calls refreshToken(config)
\* before it first suspends and is then stored as the lock
GetOrRefreshToken(pool, configIndex) ==
  IF IsFresh(pool.tokenCache[configIndex])
  THEN Awaited(pool, 0, FALSE, pool.tokenCache[configIndex].token)
  ELSE IF pool.refreshLocks[configIndex] # 0
  THEN Awaited(pool, pool.refreshLocks[configIndex], FALSE, 0)
  ELSE Awaited([ pool EXCEPT !.promises = Append(@, RefreshPromise(configIndex, "refreshing", 0)),
                             !.refreshLocks[configIndex] = Len(pool.promises) + 1 ],
               Len(pool.promises) + 1, TRUE, 0)

\* this.exhausted.add(configIndex); this.currentIndex = (this.currentIndex + 1) % this.configs.length
MarkExhausted(pool, configIndex) ==
  [ pool EXCEPT !.exhausted = @ \cup { configIndex },
                !.currentIndex = (@ + 1) % NumConfigs ]

\* a caller suspended in getBestTokenWithUsage at `await this.getOrRefreshToken`;
\* attempted: the indexes the loop took as configIndex on the way
Suspended(attempt, configIndex, awaited) ==
  [ pool |-> awaited.pool, attempted |-> { configIndex },
    caller |-> [ pc |-> "awaiting", attempt |-> attempt, configIndex |-> configIndex,
                 promise |-> awaited.promise, creator |-> awaited.creator,
                 token |-> awaited.token, availableCount |-> 0 ] ]

\* getBestTokenWithUsage threw "All token configurations failed"
AllFailed(pool) ==
  [ pool |-> pool, attempted |-> {},
    caller |-> [ pc |-> "failed", attempt |-> NumConfigs, configIndex |-> 0,
                 promise |-> 0, creator |-> FALSE, token |-> 0, availableCount |-> 0 ] ]

\* variant: the loop without its `cached.available <= 0` check
BestTokenLoop_NoQuotaCheck(pool, attempt) ==
  IF attempt >= NumConfigs THEN AllFailed(pool)
  ELSE Suspended(attempt, pool.currentIndex, GetOrRefreshToken(pool, pool.currentIndex))

\* getBestTokenWithUsage's loop from `attempt` to its next await or its throw
RECURSIVE BestTokenLoop(_, _)
BestTokenLoop(pool, attempt) ==
  IF attempt >= NumConfigs THEN AllFailed(pool)
  ELSE IF /\ pool.tokenCache[pool.currentIndex].present
          /\ pool.tokenCache[pool.currentIndex].available <= 0
  THEN [ BestTokenLoop(MarkExhausted(pool, pool.currentIndex), attempt + 1)
           EXCEPT !.attempted = @ \cup { pool.currentIndex } ]
  ELSE Suspended(attempt, pool.currentIndex, GetOrRefreshToken(pool, pool.currentIndex))

\* variant: the selection does not count against the quota
TokenSelected_NoDecrement(pool, caller, token) ==
  [ pool |-> pool, attempted |-> {},
    caller |-> [ caller EXCEPT !.pc = "done", !.token = token,
                               !.availableCount = pool.tokenCache[caller.configIndex].available ] ]

\* getBestTokenWithUsage after getOrRefreshToken returned `token`: the usage
\* is updated and the result returned
TokenSelected(pool, caller, token) ==
  [ pool |-> [ pool EXCEPT !.tokenCache[caller.configIndex].available =
                             IF @ > 0 THEN @ - 1 ELSE @ ],
    attempted |-> {},
    caller |-> [ caller EXCEPT !.pc = "done", !.token = token,
                               !.availableCount = pool.tokenCache[caller.configIndex].available ] ]

\* getBestTokenWithUsage's catch, then the loop goes on
TokenFailed(pool, caller) ==
  BestTokenLoop(MarkExhausted(pool, caller.configIndex), caller.attempt + 1)

\* the caller goes on after its await
ResumeCaller(pool, caller) ==
  IF caller.promise # 0 /\ pool.promises[caller.promise].stage = "rejected"
  THEN TokenFailed(pool, caller)
  ELSE IF ~pool.tokenCache[caller.configIndex].present
  THEN TokenFailed(pool, caller)
  ELSE TokenSelected(pool, caller, IF caller.promise = 0 THEN caller.token
                                   ELSE pool.promises[caller.promise].token)

\* variant: the catch of getOrRefreshToken leaves the lock in place
RefreshFailed_KeepsLock(pool, p) ==
  [ pool EXCEPT !.promises[p] = RefreshPromise(@.configIndex, "rejected", 0) ]

\* refreshToken(config) failed: performRefresh rethrows, the promise is
\* rejected, and the first reaction to the rejection is the catch of the
\* getOrRefreshToken call that created the promise (it awaits the promise
\* from the moment it stored it as the lock, before any other call can
\* await it): this.refreshLocks.delete(configIndex).  The reactions run
\* before the event loop starts another call.
RefreshFailed(pool, p) ==
  [ pool EXCEPT !.promises[p] = RefreshPromise(@.configIndex, "rejected", 0),
                !.refreshLocks[pool.promises[p].configIndex] = 0 ]

\* performRefresh after checkUsageLimits: the cache entry is written, the
\* index leaves the exhausted set, the lock is deleted, the promise resolves
RefreshDone(pool, p, available) ==
  [ pool EXCEPT !.tokenCache[pool.promises[p].configIndex] =
                    CacheEntry(pool.promises[p].token, available),
                !.exhausted = @ \ { pool.promises[p].configIndex },
                !.refreshLocks[pool.promises[p].configIndex] = 0,
                !.promises[p].stage = "resolved" ]

(***************************************************************************)
(* The pool used by concurrent requests                                    *)
(***************************************************************************)
\* warmupAllTokens: the getOrRefreshToken calls for the indexes from `index` on
RECURSIVE WarmupFrom(_, _)
WarmupFrom(pool, index) ==
  IF index >= NumConfigs THEN pool
  ELSE WarmupFrom(GetOrRefreshToken(pool, index).pool, index + 1)

\* a cleanupExpiredCache that deleted the expired entries only
CleanupExpiredCache_ExpiredOnly(cache, aged) ==
  [ i \in ConfigIndexes |-> IF cache[i].present /\ cache[i].expired THEN NoCache ELSE cache[i] ]

\* cleanupExpiredCache: entries that are expired or older than the TTL are deleted
CleanupExpiredCache(cache, aged) ==
  [ i \in ConfigIndexes |-> IF cache[i].present /\ (cache[i].expired \/ i \in aged)
                            THEN NoCache ELSE cache[i] ]

\* the manager as destroy() sees it
Life(pool, destroyed, timer) ==
  [ pool |-> pool, isDestroyed |-> destroyed, cleanupTimer |-> timer ]

\* variant: destroy() without its isDestroyed guard
Destroy_Unguarded(m) ==
  Life(Pool(0, [ i \in ConfigIndexes |-> NoCache ], {}, [ i \in ConfigIndexes |-> 0 ],
            m.pool.promises),
       TRUE, FALSE)

\* destroy(): nothing when already destroyed; else the interval is cleared,
\* refreshLocks, tokenCache and exhausted are cleared, currentIndex is reset.
\* The refresh promises themselves go on.
Destroy(m) ==
  IF m.isDestroyed THEN m
  ELSE Life(Pool(0, [ i \in ConfigIndexes |-> NoCache ], {}, [ i \in ConfigIndexes |-> 0 ],
                 m.pool.promises),
            TRUE, FALSE)

PoolCur == Pool(currentIndex, tokenCache, exhausted, refreshLocks, promises)

PoolLife == Life(PoolCur, isDestroyed, cleanupTimer)

PoolSet(pool) ==
  /\ currentIndex' = pool.currentIndex
  /\ tokenCache' = pool.tokenCache
  /\ exhausted' = pool.exhausted
  /\ refreshLocks' = pool.refreshLocks
  /\ promises' = pool.promises

IdleCaller ==
  [ pc |-> "idle", attempt |-> 0, configIndex |-> 0, promise |-> 0, creator |-> FALSE,
    token |-> 0, availableCount |-> 0 ]

\* indexes whose cached quota is used up or that are in the exhausted set
ExhaustedNow(pool) ==
  pool.exhausted \cup { i \in ConfigIndexes : pool.tokenCache[i].present /\ pool.tokenCache[i].available <= 0 }

PoolIdle ==
  /\ currentIndex = 0
  /\ tokenCache = [ i \in ConfigIndexes |-> NoCache ]
  /\ exhausted = {}
  /\ refreshLocks = [ i \in ConfigIndexes |-> 0 ]
  /\ promises = << >>
  /\ callers = [ c \in Callers |-> IdleCaller ]
  /\ waiting = << >>
  /\ ready = << >>
  /\ selLog = << >>
  /\ overlapped = FALSE
  /\ everExhausted = {}
  /\ tried = [ c \in Callers |-> {} ]
  /\ isDestroyed = FALSE
  /\ cleanupTimer = TRUE
  /\ warming = {}
  /\ destroyedAgain = FALSE

PoolInit == PoolIdle

\* the requests of `queue` that await promise p, in order
AwaitingIn(queue, p) ==
  LET Awaits(c) == callers[c].promise = p
  IN  SelectSeq(queue, Awaits)

\* the requests of `queue` that do not await promise p
NotAwaitingIn(queue, p) ==
  LET AwaitsOther(c) == callers[c].promise # p
  IN  SelectSeq(queue, AwaitsOther)

\* promise p settles: the requests awaiting it are queued to go on, in the
\* order in which they began to await it
Release(p) ==
  /\ ready' = ready \o AwaitingIn(waiting, p)
  /\ waiting' = NotAwaitingIn(waiting, p)

\* the microtask queue without request c at its head
Dequeued(c) == IF ready # << >> /\ Head(ready) = c THEN Tail(ready) ELSE ready

\* the pool and caller c move on to r; the monitors follow.  A request
\* that awaits a value already there (the fast path's) goes to the end of
\* the microtask queue; one that awaits a refresh in flight waits for it.
PoolGoto(c, r) ==
  /\ PoolSet(r.pool)
  /\ ready' = IF /\ r.caller.pc = "awaiting"
                 /\ (r.caller.promise = 0 \/ ~Pending(r.pool.promises[r.caller.promise]))
              THEN Append(Dequeued(c), c) ELSE Dequeued(c)
  /\ waiting' = IF /\ r.caller.pc = "awaiting"
                   /\ r.caller.promise # 0
                   /\ Pending(r.pool.promises[r.caller.promise])
                THEN Append(waiting, c) ELSE waiting
  /\ tried' = [ tried EXCEPT ![c] = @ \cup r.attempted ]
  /\ callers' = [ callers EXCEPT ![c] = r.caller ]
  /\ selLog' = IF r.caller.pc = "done" THEN Append(selLog, r.caller.configIndex) ELSE selLog
  /\ everExhausted' = everExhausted \cup ExhaustedNow(r.pool)

\* caller c calls getBestTokenWithUsage(); the owner starts no call on a
\* manager it has destroyed
PoolSelect(c) ==
  /\ ready = << >>
  /\ ~isDestroyed
  /\ callers[c].pc = "idle"
  /\ Len(BestTokenLoop(PoolCur, 0).pool.promises) <= MaxRefreshes
  /\ PoolGoto(c, BestTokenLoop(PoolCur, 0))
  /\ overlapped' = (overlapped \/ \E d \in Callers : callers[d].pc = "awaiting")
  /\ UNCHANGED << lifeVars, otherThanPool >>

\* caller c, at the head of the microtask queue, goes on after
\* `await this.getOrRefreshToken(...)`
PoolResume(c) ==
  /\ ready # << >>
  /\ Head(ready) = c
  /\ Len(ResumeCaller(PoolCur, callers[c]).pool.promises) <= MaxRefreshes
  /\ PoolGoto(c, ResumeCaller(PoolCur, callers[c]))
  /\ UNCHANGED << overlapped, lifeVars, otherThanPool >>

\* the refresh endpoint answers promise p's refreshToken(config): with a
\* token (named after the promise), or with an error
PoolRefreshReturns(p, ok) ==
  /\ p \in DOMAIN promises
  /\ promises[p].stage = "refreshing"
  /\ ready = << >>
  /\ PoolSet(IF ok THEN [ PoolCur EXCEPT !.promises[p] = RefreshPromise(@.configIndex, "probing", p) ]
             ELSE RefreshFailed(PoolCur, p))
  /\ IF ok THEN UNCHANGED << waiting, ready >> ELSE Release(p)
  /\ UNCHANGED << callers, selLog, overlapped, everExhausted, tried, lifeVars, otherThanPool >>

\* promise p's checkUsageLimits(token) answers: a quota, or an error, which
\* leaves available at 0
PoolProbeReturns(p, available) ==
  /\ p \in DOMAIN promises
  /\ promises[p].stage = "probing"
  /\ ready = << >>
  /\ PoolSet(RefreshDone(PoolCur, p, available))
  /\ Release(p)
  /\ everExhausted' = everExhausted \cup ExhaustedNow(RefreshDone(PoolCur, p, available))
  /\ UNCHANGED << callers, selLog, overlapped, tried, lifeVars, otherThanPool >>

\* time passes: the cached token of index i comes within EXPIRY_BUFFER_MS of its expiry
PoolExpire(i) ==
  /\ ready = << >>
  /\ IsFresh(tokenCache[i])
  /\ tokenCache' = [ tokenCache EXCEPT ![i].expired = TRUE ]
  /\ UNCHANGED << currentIndex, exhausted, refreshLocks, promises, callers, waiting, ready, selLog,
                  overlapped, everExhausted, tried, lifeVars, otherThanPool >>

\* warmupAllTokens(): getOrRefreshToken(index, config) is called for every
\* config in turn, each call running to its await
PoolWarmup ==
  /\ ready = << >>
  /\ ~isDestroyed
  /\ warming = {}
  /\ promises = << >>
  /\ Len(WarmupFrom(PoolCur, 0).promises) <= MaxRefreshes
  /\ PoolSet(WarmupFrom(PoolCur, 0))
  /\ warming' = DOMAIN WarmupFrom(PoolCur, 0).promises
  /\ UNCHANGED << callers, waiting, ready, selLog, overlapped, everExhausted, tried, isDestroyed, cleanupTimer,
                  destroyedAgain, otherThanPool >>

\* warmupAllTokens' .catch for the getOrRefreshToken call that created
\* promise p, after the promise was rejected
PoolWarmupFails(p) ==
  /\ p \in warming
  /\ promises[p].stage = "rejected"
  /\ warming' = warming \ { p }
  /\ UNCHANGED << currentIndex, tokenCache, exhausted, refreshLocks, promises, callers, waiting, ready, selLog, overlapped,
                  everExhausted, tried, isDestroyed, cleanupTimer, destroyedAgain, otherThanPool >>

\* the cleanup interval fires: cleanupExpiredCache(); aged are the indexes
\* whose entry is older than CACHE_TTL_MS
PoolSweep(aged) ==
  /\ ready = << >>
  /\ cleanupTimer
  /\ \E i \in ConfigIndexes : tokenCache[i].present
  /\ tokenCache' = CleanupExpiredCache(tokenCache, aged)
  /\ UNCHANGED << currentIndex, exhausted, refreshLocks, promises, callers, waiting, ready, selLog,
                  overlapped, everExhausted, tried, lifeVars, otherThanPool >>

\* destroy()
PoolDestroy ==
  /\ ready = << >>
  /\ destroyedAgain' = (destroyedAgain \/ isDestroyed)
  /\ PoolSet(Destroy(PoolLife).pool)
  /\ isDestroyed' = Destroy(PoolLife).isDestroyed
  /\ cleanupTimer' = Destroy(PoolLife).cleanupTimer
  /\ UNCHANGED << callers, waiting, ready, selLog, overlapped, everExhausted, tried, warming, otherThanPool >>

PoolNext ==
  \/ \E c \in Callers : PoolSelect(c)
  \/ \E c \in Callers : PoolResume(c)
  \/ \E p \in 1..MaxRefreshes, ok \in BOOLEAN : PoolRefreshReturns(p, ok)
  \/ \E p \in 1..MaxRefreshes, available \in Quotas : PoolProbeReturns(p, available)
  \/ \E i \in ConfigIndexes : PoolExpire(i)

\* Requests served between warm-up and shutdown.
LifeCallers == { "a", "b" }

\* AuthService.create() has returned: `await tokenManager.warmupAllTokens()`
\* is over, every warm-up refresh has settled and every catch has run
Warmed ==
  /\ Len(promises) >= NumConfigs
  /\ \A p \in 1..NumConfigs : ~Pending(promises[p])
  /\ \A p \in warming : promises[p].stage # "rejected"

\* AuthService.getTokenWithUsage() of request c
PoolServe(c) == Warmed /\ PoolSelect(c)

\* the manager over its life: warm-up, requests, cache sweeps, destroy()
PoolLifeNext ==
  \/ PoolWarmup
  \/ \E p \in 1..MaxRefreshes : PoolWarmupFails(p)
  \/ \E c \in LifeCallers : PoolServe(c)
  \/ \E c \in LifeCallers : PoolResume(c)
  \/ \E p \in 1..MaxRefreshes, ok \in BOOLEAN : PoolRefreshReturns(p, ok)
  \/ \E p \in 1..MaxRefreshes, available \in Quotas : PoolProbeReturns(p, available)
  \/ \E i \in ConfigIndexes : PoolExpire(i)
  \/ \E aged \in { {} } \cup { { i } : i \in ConfigIndexes } : PoolSweep(aged)
  \/ PoolDestroy

\* refresh promises of index i whose refresh is still in progress
InFlight(i) == { p \in DOMAIN promises : promises[p].configIndex = i /\ Pending(promises[p]) }

\* calls of the refresh endpoint for index i so far
RefreshCalls(i) == Cardinality({ p \in DOMAIN promises : promises[p].configIndex = i })

\* C4: concurrent getOrRefreshToken(i) calls on a stale entry share one
\* refresh: at most one refresh of i is in progress at any time, every
\* caller waiting on index i waits for that refresh (the one the lock
\* holds), and a caller that waited is handed the token that refresh produced.
C4_SingleFlight ==
  /\ \A i \in ConfigIndexes : Cardinality(InFlight(i)) <= 1
  /\ \A c \in Callers :
       (callers[c].pc = "awaiting" /\ callers[c].promise # 0 /\ Pending(promises[callers[c].promise]))
         => /\ InFlight(callers[c].configIndex) = { callers[c].promise }
            /\ refreshLocks[callers[c].configIndex] = callers[c].promise
  /\ \A c \in Callers :
       (callers[c].pc = "done" /\ callers[c].promise # 0)
         => /\ promises[callers[c].promise].stage = "resolved"
            /\ promises[callers[c].promise].configIndex = callers[c].configIndex
            /\ callers[c].token = promises[callers[c].promise].token

\* three callers asked for index 0 while its entry was stale, the endpoint
\* was called once for it, and all three hold the token of that call
C4_Witness ==
  /\ RefreshCalls(0) = 1
  /\ \A c \in Callers :
       /\ callers[c].pc = "done"
       /\ callers[c].configIndex = 0
       /\ callers[c].promise = 1
       /\ callers[c].token = promises[1].token

\* C5: with selection calls made one after another on a pool of N
\* credentials, every credential that has not been exhausted is among the
\* last N credentials selected.
C5_RoundRobinFairness ==
  (~overlapped /\ Len(selLog) >= NumConfigs) =>
    \A i \in ConfigIndexes \ everExhausted :
      \E k \in (Len(selLog) - NumConfigs + 1)..Len(selLog) : selLog[k] = i

\* the last loop iteration caller c's step ran
LastAttempt(c) ==
  IF callers'[c].pc = "failed" THEN NumConfigs - 1 ELSE callers'[c].attempt

\* the indexes the loop iterations of caller c's step took from currentIndex:
\* a call runs the iterations from 0 on, a caller whose await threw those
\* after its own
ReachedBy(c) ==
  IF callers[c].pc = "idle" /\ callers'[c].pc # "idle"
  THEN { (currentIndex + j) % NumConfigs : j \in 0..LastAttempt(c) }
  ELSE IF callers[c].pc = "awaiting" /\ callers'[c].pc \in { "awaiting", "failed" }
          /\ callers'[c] # callers[c]
  THEN { (currentIndex + 1 + j) % NumConfigs : j \in 0..(LastAttempt(c) - callers[c].attempt - 1) }
  ELSE {}

\* C11: a selection attempt that reaches a credential whose cached available
\* quota is 0 puts it in the exhausted set, leaves its quota as it is and
\* does not go on to use it.
C11_ZeroQuotaIsExhausted ==
  [][ \A c \in Callers : \A i \in ReachedBy(c) :
        (tokenCache[i].present /\ tokenCache[i].available <= 0)
          => /\ i \in exhausted'
             /\ tokenCache'[i] = tokenCache[i]
             /\ ~(callers'[c].pc = "awaiting" /\ callers'[c].configIndex = i) ]_vars

\* a credential was selected, its quota went from 1 to 0, and a later
\* selection found it at 0 and put it in the exhausted set (no refresh failed)
C11_Witness ==
  /\ \A p \in DOMAIN promises : promises[p].stage # "rejected"
  /\ \E i \in exhausted :
       /\ tokenCache[i].present
       /\ tokenCache[i].available = 0
       /\ \E k \in DOMAIN selLog : selLog[k] = i

\* the pool of three after warm-up, before any request: credential 0 has
\* quota 0, credentials 1 and 2 have quota 1
C12_Start ==
  /\ Warmed
  /\ Len(promises) = NumConfigs
  /\ \A c \in Callers : callers[c].pc = "idle"
  /\ \A i \in ConfigIndexes : IsFresh(tokenCache[i])
  /\ tokenCache[0].available = 0
  /\ tokenCache[1].available = 1
  /\ tokenCache[2].available = 1

\* C12: from that pool, two selections made one after the other with no
\* refresh in between select index 1 and index 2, each exactly once.
C12_SkipsExhaustedThenRotates ==
  [](C12_Start =>
       []((~overlapped /\ Len(promises) = NumConfigs /\ Len(selLog) = 2)
            => \A i \in { 1, 2 } : Cardinality({ k \in DOMAIN selLog : selLog[k] = i }) = 1))

\* the two selections were made from that pool: 1 then 2 were selected, all
\* three quotas are at 0 and no refresh followed the warm-up
C12_Witness ==
  /\ Warmed
  /\ Len(promises) = NumConfigs
  /\ ~overlapped
  /\ selLog = << 1, 2 >>
  /\ \A i \in ConfigIndexes : IsFresh(tokenCache[i]) /\ tokenCache[i].available = 0
  /\ { 0, 1 } \subseteq exhausted

\* C19: when upstream answers non-2xx the client stream is the one error
\* chunk and is then closed; no message_start and no other event is
\* emitted (whatever becomes of the stream).
C19_UpstreamErrorIsOneChunk ==
  [][ (spc = "new" /\ spc' # "reading") =>
        /\ \A k \in DOMAIN sout' : sout'[k] = ErrorChunk
        /\ Len(sout') <= 1
        /\ (sout' = << ErrorChunk >>) <=> (spc' = "closed")
        /\ (sout' = << >>) <=> (spc' \in { "errored", "aborted" }) ]_vars

\* the stream of a non-2xx upstream answer, closed after its error chunk
C19_Witness ==
  /\ spc = "closed"
  /\ nRead = 0
  /\ cleaned
  /\ sout = << ErrorChunk >>

\* C20: a stream whose upstream sent a ContentLengthExceededException event
\* ends with a message_delta whose stop_reason is max_tokens.
C20_ContentLengthIsMaxTokens ==
  (spc = "closed" /\ sawException) =>
    \E k \in DOMAIN sout : sout[k].type = "message_delta" /\ sout[k].stop_reason = "max_tokens"

GarbageByte == << 255 >>

\* MIN_MESSAGE_SIZE bytes whose prelude declares totalLength, no headers;
\* LengthBlock(MIN_MESSAGE_SIZE) is the whole frame with an empty payload
LengthBlock(totalLength) == U32BE(totalLength) \o [ i \in 1..(MIN_MESSAGE_SIZE - 4) |-> 0 ]

\* the lengths on both sides of the two limits
BoundaryLengths ==
  { MIN_MESSAGE_SIZE - 1, MIN_MESSAGE_SIZE, MIN_MESSAGE_SIZE + 1,
    MAX_MESSAGE_SIZE - 1, MAX_MESSAGE_SIZE, MAX_MESSAGE_SIZE + 1 }

\* garbage that no offset reads as a length in range, one byte more than
\* the error budget once the loop stops for lack of bytes
ExcessNoise == Noise(DefaultMaxErrors + MIN_MESSAGE_SIZE)

\* Damaged streams: a stray byte between two valid frames; a block at a
\* length limit; garbage beyond the error budget, with and without a frame
\* that throws in parseHeaders
ResyncStreams ==
  { << f1, GarbageByte, f2 >> : f1 \in DecFrames, f2 \in DecFrames }
    \cup { << LengthBlock(n) >> : n \in BoundaryLengths }
    \cup { << ExcessNoise >>, << LongGarbage >> }

ResyncInit ==
  /\ dframes \in ResyncStreams
  /\ dpos = 0
  /\ dparser = NewParser
  /\ dmsgs = << >>
  /\ dthrew = FALSE
  /\ dcuts = {}

C14_GarbageByteResync ==
  \A f1 \in DecFrames, f2 \in DecFrames :
    dframes = << f1, GarbageByte, f2 >> =>
      /\ ~dthrew
      /\ dparser.errorCount <= 1
      /\ dparser.errorCount = 1 => Len(dmsgs) >= 1
      /\ Len(dmsgs) = 2 => dparser.errorCount = 1
      /\ \E n \in 0..2 : dmsgs = SubSeq(ParseStream(NewParser, f1 \o f2).messages, 1, n)
      /\ dpos = Len(Flatten(dframes)) => (Len(dmsgs) = 2 /\ dparser.buffer = << >>)

\* F1, the byte and F2 were all fed, in more than one chunk cut inside a
\* frame, and both messages came out at the cost of one error
C14_Witness ==
  /\ Len(dframes) = 3
  /\ dframes[2] = GarbageByte
  /\ dpos = Len(Flatten(dframes))
  /\ dcuts # {}
  /\ Len(dmsgs) = 2
  /\ dparser.errorCount = 1

\* C15: whenever the error count is above maxErrors the decoder has failed
\* with "Too many errors".
C15_ErrorBudgetIsTerminal ==
  dparser.errorCount > dparser.maxErrors => dthrew

\* C26: a lock entry never outlives its refresh: refreshLocks[i] always
\* names a refresh of credential i that has not settled, and a call never
\* starts to await a refresh that has already settled: on a stale entry
\* whose last refresh is over it starts a new one.
C26_LockClearedWhenSettled ==
  /\ [](\A i \in ConfigIndexes :
          refreshLocks[i] # 0 =>
            /\ Pending(promises[refreshLocks[i]])
            /\ promises[refreshLocks[i]].configIndex = i)
  /\ [][ \A c \in Callers :
           (callers'[c] # callers[c] /\ callers'[c].pc = "awaiting" /\ callers'[c].promise # 0) =>
             /\ Pending(promises'[callers'[c].promise])
             /\ promises'[callers'[c].promise].configIndex = callers'[c].configIndex ]_vars

\* a refresh of a credential has failed and a later call, finding no fresh
\* entry, has started the credential's next refresh
C26_Witness ==
  \E c \in Callers, p \in DOMAIN promises :
    /\ callers[c].pc = "awaiting"
    /\ callers[c].creator
    /\ callers[c].promise > p
    /\ promises[p].configIndex = callers[c].configIndex
    /\ promises[p].stage = "rejected"
    /\ refreshLocks[callers[c].configIndex] = callers[c].promise

\* C27: a selection call that fails with "All token configurations failed"
\* has attempted every one of the credentials during the call, whatever
\* other calls did to the cursor meanwhile.
C27_FailsOnlyAfterAllAttempted ==
  \A c \in Callers : callers[c].pc = "failed" => tried[c] = ConfigIndexes

\* C17: destroy() on a manager that is already destroyed changes none of
\* its fields.
C17_DestroyTwiceIsNoOp ==
  [][ (isDestroyed /\ ~destroyedAgain /\ destroyedAgain')
        => UNCHANGED << currentIndex, tokenCache, exhausted, refreshLocks, promises,
                        isDestroyed, cleanupTimer >> ]_vars

\* destroy() was called on the destroyed manager, which holds a cache entry
\* written by a refresh that was in flight at the first destroy()
C17_Witness ==
  /\ destroyedAgain
  /\ isDestroyed
  /\ ~cleanupTimer
  /\ \E i \in ConfigIndexes : tokenCache[i].present

\* C18: once the manager is destroyed and no refresh is in flight any
\* more, the sweep timer is cancelled and the token cache, the lock map and
\* the exhausted set are empty.
C18_DestroyedStaysEmpty ==
  (isDestroyed /\ \A p \in DOMAIN promises : ~Pending(promises[p])) =>
    /\ ~cleanupTimer
    /\ \A i \in ConfigIndexes : ~tokenCache[i].present /\ refreshLocks[i] = 0
    /\ exhausted = {}

(***************************************************************************)
(* Non-stream collector (handleNonStreamRequest)                           *)
(***************************************************************************)
\* Input fragments of scenario S4.
FragQ1 == "{\"q\""

FragQ2 == ":\"hi\"}"

\* JSON objects are sets of <<key, value>> pairs.
EmptyObject == {}

\* JSON.parse on the strings the buffers can hold: the two documents that
\* the fragments can spell parse to their objects, every other string throws
JsonParse(text) ==
  IF text = FragQ1 \o FragQ2 THEN [ threw |-> FALSE, value |-> { << "q", "hi" >> } ]
  ELSE IF text = FragA \o FragB THEN [ threw |-> FALSE, value |-> { << "x", "1" >> } ]
  ELSE [ threw |-> TRUE, value |-> EmptyObject ]

\* an entry of toolUsesMap
ToolUse(id, name, input) == [ type |-> "tool_use", id |-> id, name |-> name, input |-> input ]

\* The collector's locals: content, toolUsesMap (its values in insertion
\* order) and toolInputBuffers
Collector(content, toolUses, buffers) ==
  [ content |-> content, toolUses |-> toolUses, toolInputBuffers |-> buffers ]

NewCollector == Collector("", << >>, EmptyMap)

\* toolUsesMap.has(toolId)
HasTool(st, toolId) == \E k \in DOMAIN st.toolUses : st.toolUses[k].id = toolId

\* tool.input = input, for the entry of toolId
SetToolInput(st, toolId, input) ==
  [ st EXCEPT !.toolUses = [ k \in DOMAIN @ |-> IF @[k].id = toolId
                                                 THEN [ @[k] EXCEPT !.input = input ]
                                                 ELSE @[k] ] ]

\* toolUsesMap.get(toolId).input
ToolInputOf(st, toolId) ==
  (CHOOSE t \in Range(st.toolUses) : t.id = toolId).input

\* `if (event.content) content += event.content`
CollectContent(st, event) ==
  IF Truthy(event.content) THEN [ st EXCEPT !.content = @ \o event.content ] ELSE st

\* `if (!toolUsesMap.has(toolId))`: the entry and its buffer are created
CollectToolEntry(st, event) ==
  IF HasTool(st, event.toolUseId) THEN st
  ELSE [ st EXCEPT !.toolUses = Append(@, ToolUse(event.toolUseId, event.name, EmptyObject)),
                   !.toolInputBuffers = MapSet(@, event.toolUseId, "") ]

\* `if (event.input !== undefined && event.input !== null)`: an object
\* replaces tool.input, a string is appended to the buffer
CollectToolInput(st, event) ==
  IF event.inputKind = "object" THEN SetToolInput(st, event.toolUseId, event.input)
  ELSE IF event.inputKind = "string"
  THEN [ st EXCEPT !.toolInputBuffers[event.toolUseId] = @ \o event.input ]
  ELSE st

\* `if (event.stop && event.toolUseId)`: the accumulated buffer is parsed
CollectToolStop(st, event) ==
  IF /\ event.stop
     /\ Truthy(event.toolUseId)
     /\ HasTool(st, event.toolUseId)
     /\ st.toolInputBuffers[event.toolUseId] # ""
     /\ ~JsonParse(st.toolInputBuffers[event.toolUseId]).threw
  THEN SetToolInput(st, event.toolUseId, JsonParse(st.toolInputBuffers[event.toolUseId]).value)
  ELSE st

\* the body of the frame loop for one payload
CollectEvent(st, event) ==
  IF ~event.json THEN st
  ELSE IF Truthy(event.toolUseId) /\ Truthy(event.name)
  THEN IF event.name \in { "web_search", "websearch" }
       THEN CollectContent(st, event)
       ELSE CollectToolStop(CollectToolInput(CollectToolEntry(CollectContent(st, event), event),
                                             event), event)
  ELSE CollectToolStop(CollectContent(st, event), event)

RECURSIVE CollectAll(_, _)
CollectAll(st, events) ==
  IF events = << >> THEN st ELSE CollectAll(CollectEvent(st, Head(events)), Tail(events))

\* the final pass over toolInputBuffers: a non-empty buffer is parsed when
\* the tool's input is still an empty object
RECURSIVE FinalPass(_, _)
FinalPass(st, toolIds) ==
  IF toolIds = {} THEN st
  ELSE LET toolId == CHOOSE t \in toolIds : TRUE
       IN  FinalPass(IF /\ st.toolInputBuffers[toolId] # ""
                        /\ ToolInputOf(st, toolId) = EmptyObject
                        /\ ~JsonParse(st.toolInputBuffers[toolId]).threw
                     THEN SetToolInput(st, toolId, JsonParse(st.toolInputBuffers[toolId]).value)
                     ELSE st,
                     toolIds \ { toolId })

\* the response body: text, tool uses, stop_reason
CollectorResponse(st) ==
  [ text |-> st.content,
    tool_uses |-> st.toolUses,
    stop_reason |-> IF Len(st.toolUses) > 0 THEN "tool_use" ELSE "end_turn" ]

\* handleNonStreamRequest on the payloads of the upstream body
HandleNonStream(events) ==
  CollectorResponse(FinalPass(CollectAll(NewCollector, events),
                              DOMAIN CollectAll(NewCollector, events).toolInputBuffers))

\* Payloads an upstream body may hold.
CollectEvents ==
  { ToolEv("t1", "lookup", "none", Absent, FALSE),
    ToolEv("t1", Absent, "string", FragQ1, FALSE),
    ToolEv("t1", Absent, "string", FragQ2, FALSE),
    ToolEv("t1", Absent, "none", Absent, TRUE),
    ToolEv("t1", "lookup", "string", FragQ1, FALSE),
    ToolEv("t1", "lookup", "string", FragQ2, TRUE),
    ToolEv("t1", "lookup", "object", { << "x", "1" >> }, FALSE),
    ToolEv("t2", "web_search", "none", Absent, FALSE),
    TextEv("hi"),
    GarbageEv }

S4Frames ==
  << ToolEv("t1", "lookup", "none", Absent, FALSE),
     ToolEv("t1", Absent, "string", FragQ1, FALSE),
     ToolEv("t1", Absent, "string", FragQ2, FALSE),
     ToolEv("t1", Absent, "none", Absent, TRUE) >>

NoResponse == [ text |-> "", tool_uses |-> << >>, stop_reason |-> Absent ]

CollectIdle ==
  /\ cupstream = << >>
  /\ cdone = FALSE
  /\ cresponse = NoResponse

CollectInit ==
  /\ cupstream \in UNION { [ 1..n -> CollectEvents ] : n \in 1..MaxPayloads }
  /\ cdone = FALSE
  /\ cresponse = NoResponse

\* the upstream answered 2xx and its body was read: the response is built
CollectRun ==
  /\ ~cdone
  /\ cdone' = TRUE
  /\ cresponse' = HandleNonStream(cupstream)
  /\ UNCHANGED << cupstream, otherThanCollect >>

CollectNext == CollectRun

\* C10: for the four frames of scenario S4 the collector returns empty
\* text, the one tool use {id t1, name lookup, input {q: "hi"}} and
\* stop_reason tool_use.
C10_ScenarioS4 ==
  (cdone /\ cupstream = S4Frames) =>
    cresponse = [ text |-> "",
                  tool_uses |-> << ToolUse("t1", "lookup", { << "q", "hi" >> }) >>,
                  stop_reason |-> "tool_use" ]

(***************************************************************************)
(* Headers in the wire grammar (spec.md, data model, "Headers")            *)
(***************************************************************************)
\* bytes a value of the given tag occupies on the wire, besides a length prefix
WireWidth(tag, value) ==
  CASE tag \in { 0, 1 } -> 0
    [] tag = 2 -> 1
    [] tag = 3 -> 2
    [] tag = 4 -> 4
    [] tag \in { 5, 8 } -> 8
    [] tag = 9 -> 16
    [] OTHER -> Len(value)

\* one header on the wire: name_len, name, value_type, value; only byte arrays
\* (6) and strings (7) carry a u16 length before the value
WireHeader(name, tag, value) ==
  << Len(name) >> \o name \o << tag >>
    \o (IF tag \in { 6, 7 } THEN << Len(value) \div 256, Len(value) % 256 >> ELSE << >>)
    \o SubSeq(value, 1, WireWidth(tag, value))

\* a value of each tag 0..9
WireValueOf ==
  [ tag \in 0..9 |->
      CASE tag \in { 0, 1 } -> << >>
        [] tag = 2 -> << 5 >>
        [] tag = 3 -> << 1, 2 >>
        [] tag = 4 -> << 0, 0, 1, 2 >>
        [] tag = 5 -> << 0, 0, 0, 0, 0, 0, 3, 4 >>
        [] tag = 6 -> << 7, 8 >>
        [] tag = 7 -> << 104, 105 >>
        [] tag = 8 -> << 0, 0, 0, 0, 0, 1, 2, 3 >>
        [] tag = 9 -> << 1, 2, 3, 4, 5, 6, 7, 8, 9, 10, 11, 12, 13, 14, 15, 16 >> ]

\* the header named by the letter 'a' + tag, holding the value of that tag
WireHeaderOf(tag) == [ name |-> << 97 + tag >>, tag |-> tag, value |-> WireValueOf[tag] ]

\* messages to encode: one header of each tag; the two length-prefixed tags;
\* a fixed-width header before a string header; all ten tags
WireMessages ==
  { [ headers |-> << WireHeaderOf(tag) >>, payload |-> << 1, 2 >> ] : tag \in 0..9 }
    \cup { [ headers |-> << WireHeaderOf(6), WireHeaderOf(7) >>, payload |-> << 3 >> ],
           [ headers |-> << WireHeaderOf(4), WireHeaderOf(7) >>, payload |-> << 4 >> ],
           [ headers |-> [ i \in 1..10 |-> WireHeaderOf(i - 1) ], payload |-> << 5, 6 >> ] }

RECURSIVE WireHeaders(_)
WireHeaders(hs) ==
  IF hs = << >> THEN << >>
  ELSE WireHeader(Head(hs).name, Head(hs).tag, Head(hs).value) \o WireHeaders(Tail(hs))

\* the frame of a message
WireFrame(msg) == Frame(WireHeaders(msg.headers), msg.payload)

\* the names and values of a message's headers, as parseHeaderValue represents
\* a value of each tag
WireFields(msg) ==
  [ name \in { msg.headers[i].name : i \in DOMAIN msg.headers } |->
      LET i == CHOOSE i \in DOMAIN msg.headers : msg.headers[i].name = name
      IN  ParseHeaderValue(msg.headers[i].tag, msg.headers[i].value).value ]

WireInit ==
  /\ dframes \in { << WireFrame(msg) >> : msg \in WireMessages }
  /\ dpos = 0
  /\ dparser = NewParser
  /\ dmsgs = << >>
  /\ dthrew = FALSE
  /\ dcuts = {}

\* C22: a message whose headers use the value tags 0..9, encoded in the wire
\* grammar and delivered whole, is decoded to one message with the same
\* header names and values and the same payload.
C22_HeaderRoundTrip ==
  \A msg \in WireMessages :
    (dframes = << WireFrame(msg) >> /\ dpos = Len(WireFrame(msg))) =>
      /\ ~dthrew
      /\ Len(dmsgs) = 1
      /\ dmsgs[1].payload = msg.payload
      /\ dmsgs[1].headers.fields = WireFields(msg)

\* the part of C22 that the decoder keeps: a message whose header values are
\* all byte arrays and strings is decoded to the same names, values and payload
C22_LengthPrefixedRoundTrip ==
  \A msg \in WireMessages :
    (/\ dframes = << WireFrame(msg) >>
     /\ dpos = Len(WireFrame(msg))
     /\ \A i \in DOMAIN msg.headers : msg.headers[i].tag \in { 6, 7 }) =>
      /\ ~dthrew
      /\ Len(dmsgs) = 1
      /\ dmsgs[1].payload = msg.payload
      /\ dmsgs[1].headers.fields = WireFields(msg)

\* C23: whenever a content block was opened in the stream, every
\* message_delta emitted carries usage.output_tokens >= 1.
C23_OutputTokensAtLeastOne ==
  (\E k \in DOMAIN sout : sout[k].type = "content_block_start") =>
    \A j \in DOMAIN sout : sout[j].type = "message_delta" => sout[j].output_tokens >= 1

\* a finished stream with a text block and a tool block opened, whose
\* message_delta reports the tokens counted
C23_Witness ==
  /\ spc = "closed"
  /\ \E k \in DOMAIN sout : sout[k].type = "content_block_start" /\ sout[k].kind = "tool_use"
  /\ \E k \in DOMAIN sout : sout[k].type = "content_block_start" /\ sout[k].kind # "tool_use"
  /\ \E j \in DOMAIN sout : sout[j].type = "message_delta" /\ sout[j].output_tokens = totalOutputTokens
  /\ totalOutputTokens >= 1

(***************************************************************************)
(* handleRequest (main.ts): authentication and routing                     *)
(*                                                                         *)
(* A path is the sequence of its segments: /v1/messages is <<"v1",         *)
(* "messages">>, / is << >>.  server/middleware.ts is not part of the      *)
(* sources; requiresAuth and validateAPIKey are modelled from the          *)
(* interface description ("Bearer token or x-api-key must equal a          *)
(* configured client secret").                                             *)
(***************************************************************************)
\* the configured client secret (KIRO_CLIENT_TOKEN) and another key
ClientToken == "secret"

WrongToken == "other"

\* a path starts with a protected prefix
RequiresAuth(pathname, protectedPrefixes) ==
  \E prefix \in protectedPrefixes :
    Len(prefix) <= Len(pathname) /\ SubSeq(pathname, 1, Len(prefix)) = prefix

\* the key a request presents: the Authorization header without "Bearer ",
\* or the x-api-key header when there is no Authorization header
ExtractAPIKey(req) == IF Truthy(req.bearer) THEN req.bearer ELSE req.xApiKey

ValidateAPIKey(req, clientToken) == ExtractAPIKey(req) = clientToken

\* checkAuth: protectedPrefixes = ["/v1"]
CheckAuth(req, clientToken) ==
  IF ~RequiresAuth(req.path, { << "v1" >> }) THEN TRUE
  ELSE ValidateAPIKey(req, clientToken)

NoHandler == "<none>"

\* handleRequest's route chain: the handler that runs for a path and method
Route(path, method) ==
  CASE path = << "v1", "models" >> /\ method = "GET" -> "handleModels"
    [] path = << "api", "tokens" >> /\ method = "GET" -> "handleTokenStatus"
    [] path = << "api", "admin", "tokens" >> /\ method = "GET" -> "handleGetTokens"
    [] path = << "api", "admin", "tokens" >> /\ method = "POST" -> "handleAddToken"
    [] path = << "api", "admin", "tokens" >> /\ method = "DELETE" -> "handleDeleteToken"
    [] path = << "api", "admin", "tokens", "import" >> /\ method = "POST" -> "handleImportTokens"
    [] path = << "api", "admin", "tokens", "clear" >> /\ method = "POST" -> "handleClearTokens"
    [] path = << "v1", "messages" >> /\ method = "POST" -> "handleMessages"
    [] path = << "v1", "messages", "count_tokens" >> /\ method = "POST" -> "handleCountTokens"
    [] path = << "v1", "chat", "completions" >> /\ method = "POST" -> "handleOpenAI"
    [] path = << >> /\ method = "GET" -> "serveStaticFile"
    [] path = << "admin" >> /\ method = "GET" -> "serveStaticFile"
    [] Len(path) >= 1 /\ path[1] = "static" /\ method = "GET" -> "serveStaticFile"
    [] OTHER -> NoHandler

\* statuses a handler may answer with
HandlerStatuses == { 200, 400, 500 }

\* handleRequest: the responses it may return for a request
HandleRequest(req, clientToken) ==
  IF req.method = "OPTIONS" THEN { [ status |-> 200, handler |-> NoHandler ] }
  ELSE IF ~CheckAuth(req, clientToken) THEN { [ status |-> 401, handler |-> NoHandler ] }
  ELSE IF Route(req.path, req.method) = NoHandler THEN { [ status |-> 404, handler |-> NoHandler ] }
  ELSE { [ status |-> st, handler |-> Route(req.path, req.method) ] : st \in HandlerStatuses }

HttpPaths ==
  { << "v1", "models" >>, << "v1", "messages" >>, << "v1", "messages", "count_tokens" >>,
    << "v1", "chat", "completions" >>, << "v1", "unknown" >>,
    << "api", "tokens" >>, << "api", "admin", "tokens" >>,
    << "api", "admin", "tokens", "import" >>, << "api", "admin", "tokens", "clear" >>,
    << >>, << "admin" >>, << "static", "app.js" >> }

HttpRequests ==
  [ path : HttpPaths, method : { "GET", "POST", "DELETE", "OPTIONS" },
    bearer : { Absent, ClientToken, WrongToken }, xApiKey : { Absent, ClientToken, WrongToken } ]

\* the endpoints the README's table marks as requiring authentication
DocumentedAuth ==
  { << << "api", "admin", "tokens" >>, "GET" >>, << << "api", "admin", "tokens" >>, "POST" >>,
    << << "api", "admin", "tokens" >>, "DELETE" >>,
    << << "api", "admin", "tokens", "import" >>, "POST" >>,
    << << "api", "admin", "tokens", "clear" >>, "POST" >>,
    << << "v1", "models" >>, "GET" >>, << << "v1", "messages" >>, "POST" >>,
    << << "v1", "messages", "count_tokens" >>, "POST" >>,
    << << "v1", "chat", "completions" >>, "POST" >> }

NoRequest == [ path |-> << >>, method |-> "<none>", bearer |-> Absent, xApiKey |-> Absent ]

HttpIdle ==
  /\ hreq = NoRequest
  /\ hresp = [ status |-> 0, handler |-> NoHandler ]

\* one request served
HttpServe(req) ==
  /\ hreq' = req
  /\ hresp' \in HandleRequest(req, ClientToken)
  /\ UNCHANGED otherThanHttp

HttpNext == \E req \in HttpRequests : HttpServe(req)

\* neither the Bearer token nor x-api-key is the client secret
Unauthenticated(req) == req.bearer # ClientToken /\ req.xApiKey # ClientToken

\* C24: a request to an endpoint documented as requiring authentication
\* (the /v1 routes and the /api/admin/tokens routes) that presents no key
\* equal to the client secret is answered 401 and no handler runs.
C24_DocumentedAuthEnforced ==
  (<< hreq.path, hreq.method >> \in DocumentedAuth /\ Unauthenticated(hreq)) =>
    (hresp.status = 401 /\ hresp.handler = NoHandler)

\* the part of C24 the code keeps: every request under /v1, routed or not,
\* is answered 401 with no handler unless it presents the client secret
C24_V1Enforced ==
  (hreq.method \notin { "<none>", "OPTIONS" } /\ RequiresAuth(hreq.path, { << "v1" >> })
     /\ Unauthenticated(hreq)) =>
    (hresp.status = 401 /\ hresp.handler = NoHandler)

(***************************************************************************)
(* SessionManager.generateStableConversationId (utils/session.ts)          *)
(***************************************************************************)
\* `if (this.sessions.size > 1000)`
MaxSessions == 1000

\* `entries.slice(-500)`
KeptSessions == 500

\* Clients other than the observed one that call.
MaxClients == 1001

\* x || d for an optional string
OrElse(x, d) == IF Truthy(x) THEN x ELSE d

\* the key of a client: `${ip || "unknown"}_${userAgent || "unknown"}_${customId || ""}`
SessionKey(clientInfo) ==
  OrElse(clientInfo.ip, "unknown") \o "_" \o OrElse(clientInfo.userAgent, "unknown")
    \o "_" \o OrElse(clientInfo.customId, "")

\* the client whose calls are observed, and the k-th other client
ObservedClient == [ ip |-> "127.0.0.1", userAgent |-> "test-agent", customId |-> Absent ]

OtherClient(k) == [ ip |-> ToString(k), userAgent |-> Absent, customId |-> Absent ]

\* generateStableConversationId: the id returned and the fields after the
\* call.  crypto.randomUUID() returns a value not returned before: the
\* number of the draw.
GenerateStableConversationId(map, drawn, clientInfo) ==
  LET key == SessionKey(clientInfo)
  IN  IF \E i \in DOMAIN map : map[i].key = key
      THEN [ id |-> map[CHOOSE i \in DOMAIN map : map[i].key = key].id,
             sessions |-> map, uuids |-> drawn ]
      ELSE LET conversationId == drawn + 1
               set == Append(map, [ key |-> key, id |-> conversationId ])
           IN  [ id |-> conversationId,
                 sessions |-> IF Len(set) > MaxSessions
                              THEN SubSeq(set, Len(set) - KeptSessions + 1, Len(set))
                              ELSE set,
                 uuids |-> drawn + 1 ]

SessionIdle ==
  /\ sessions = << >>
  /\ uuids = 0
  /\ others = 0
  /\ idFirst = 0
  /\ idLast = 0

\* the observed client calls
SessionObserved ==
  /\ LET r == GenerateStableConversationId(sessions, uuids, ObservedClient)
     IN  /\ sessions' = r.sessions
         /\ uuids' = r.uuids
         /\ idFirst' = IF idFirst = 0 THEN r.id ELSE idFirst
         /\ idLast' = r.id
  /\ UNCHANGED others
  /\ UNCHANGED otherThanSession

\* a client that has not called before calls, between two calls of the
\* observed client
SessionOther ==
  /\ idFirst # 0
  /\ others < MaxClients
  /\ LET r == GenerateStableConversationId(sessions, uuids, OtherClient(others + 1))
     IN  /\ sessions' = r.sessions
         /\ uuids' = r.uuids
  /\ others' = others + 1
  /\ UNCHANGED << idFirst, idLast >>
  /\ UNCHANGED otherThanSession

SessionNext == SessionObserved \/ SessionOther

\* C25: every call with the observed client's info returns the id its first
\* call returned, whatever calls of other clients came in between.
C25_StableConversationId == idFirst # 0 => idLast = idFirst

\* the part of C25 the code keeps: the id is the same while fewer than
\* MaxSessions other clients have called since
C25_StableBelowLimit == (idFirst # 0 /\ others < MaxSessions) => idLast = idFirst

FrontIdle == HttpIdle /\ SessionIdle

(***************************************************************************)
(* The manager in service: requests keep arriving                          *)
(***************************************************************************)

\* the requests a server in service handles at the same time
ServiceCallers == { "a", "b" }

\* the handler that called getBestTokenWithUsage() has answered its request
\* (with the credential, or with the error); the next request takes its
\* place, and the record of the finished call is dropped
PoolAnswered(c) ==
  /\ ready = << >>
  /\ callers[c].pc \in { "done", "failed" }
  /\ callers' = [ callers EXCEPT ![c] = IdleCaller ]
  /\ tried' = [ tried EXCEPT ![c] = {} ]
  /\ selLog' = << >>
  /\ UNCHANGED << currentIndex, tokenCache, exhausted, refreshLocks, promises, waiting, ready,
                  overlapped, everExhausted, lifeVars, otherThanPool >>

\* the quotas the usage endpoint reports to a server in service
ServiceQuotas == { 0, 2 }

\* the refresh promises something still refers to: those not settled, and
\* those a request awaits
Referenced ==
  { p \in DOMAIN promises :
      \/ Pending(promises[p])
      \/ \E c \in Callers : callers[c].pc = "awaiting" /\ callers[c].promise = p }

\* some refresh promise is referred to by nothing any longer
Collectable == Referenced # DOMAIN promises

\* the id of promise p once the promises nothing refers to are gone
Renumbered(p) == Cardinality({ q \in Referenced : q <= p })

\* the promises nothing refers to any longer are collected; the ones that
\* stay are numbered afresh, in the order of their creation
PoolForget ==
  /\ Collectable
  /\ warming = {}
  /\ \A i \in ConfigIndexes : refreshLocks[i] \in Referenced \cup { 0 }
  /\ promises' = [ k \in 1..Cardinality(Referenced) |->
                     promises[CHOOSE p \in Referenced : Renumbered(p) = k] ]
  /\ refreshLocks' = [ i \in ConfigIndexes |->
                         IF refreshLocks[i] = 0 THEN 0 ELSE Renumbered(refreshLocks[i]) ]
  /\ callers' = [ c \in Callers |->
                    [ callers[c] EXCEPT !.promise = IF @ \in Referenced THEN Renumbered(@) ELSE 0 ] ]
  /\ UNCHANGED << currentIndex, tokenCache, exhausted, waiting, ready, selLog,
                  overlapped, everExhausted, tried, lifeVars, otherThanPool >>

\* the cleanup interval fires
PoolCleanup == \E aged \in { {} } \cup { { i } : i \in ConfigIndexes } : PoolSweep(aged)

\* the manager serving the requests `cs`, the refresh endpoint answering
\* with a token (TRUE) or an error (FALSE) as `oks` allows
PoolServiceNext(cs, oks) ==
  \/ \E c \in cs : ~Collectable /\ PoolSelect(c)
  \/ \E c \in cs : ~Collectable /\ PoolResume(c)
  \/ \E c \in cs : ~Collectable /\ PoolAnswered(c)
  \/ \E p \in 1..MaxRefreshes, ok \in oks : ~Collectable /\ PoolRefreshReturns(p, ok)
  \/ \E p \in 1..MaxRefreshes, available \in ServiceQuotas : ~Collectable /\ PoolProbeReturns(p, available)
  \/ \E i \in ConfigIndexes : ~Collectable /\ PoolExpire(i)
  \/ ~Collectable /\ PoolCleanup
  \/ PoolForget

\* the cached quota of credential i is used up: selection skips it
QuotaUsedUp(i) == tokenCache[i].present /\ tokenCache[i].available <= 0

\* the event loop runs the microtask queue, the endpoints answer, handlers
\* answer their requests, selection calls keep arriving, and an entry whose
\* quota is used up, which no selection replaces, grows older than
\* CACHE_TTL_MS and is deleted when the interval fires.  With the promises
\* nothing refers to collected, the pending ones number at most one for each
\* request.
PoolServiceFairness(cs, oks) ==
  /\ \A c \in cs : WF_vars(~Collectable /\ PoolResume(c))
  /\ \A c \in cs : SF_vars(~Collectable /\ PoolAnswered(c))
  /\ \A c \in cs : SF_vars(~Collectable /\ PoolSelect(c))
  /\ \A p \in 1..Cardinality(cs) : SF_vars(\E ok \in oks : ~Collectable /\ PoolRefreshReturns(p, ok))
  /\ \A p \in 1..Cardinality(cs) : SF_vars(\E available \in ServiceQuotas : ~Collectable /\ PoolProbeReturns(p, available))
  /\ \A i \in ConfigIndexes : SF_vars(~Collectable /\ QuotaUsedUp(i) /\ PoolSweep({ i }))
  /\ SF_vars(PoolForget)

\* C28: with selection calls arriving for ever, every credential is at some
\* time tried by a call or found exhausted.
C28_EveryCredentialEventuallyTried ==
  \A i \in ConfigIndexes : <>(i \in everExhausted \/ \E c \in Callers : i \in tried[c])

\* credential i was skipped by a selection call for its used-up cached quota
SkippedForQuota(i) == i \in exhausted /\ QuotaUsedUp(i)

\* a call has been handed a credential other than i
ServedByOther(i) ==
  \E c \in Callers : callers[c].pc = "done" /\ callers[c].configIndex # i

C30_NoExceededWhileOtherHasQuota ==
  [][ \A c \in Callers :
        (callers[c].pc # "done" /\ callers'[c].pc = "done" /\ callers'[c].availableCount <= 0) =>
          ~\E j \in ConfigIndexes \ { callers'[c].configIndex } :
              tokenCache'[j].present /\ tokenCache'[j].available > 0 ]_vars

\* C31: within one stream, content_block_start events for two different
\* tool-use ids never carry the same block index.
C31_ToolIndexesAreDistinct ==
  \A j \in DOMAIN sout : \A k \in DOMAIN sout :
    ( /\ sout[j].type = "content_block_start" /\ sout[j].kind = "tool_use"
      /\ sout[k].type = "content_block_start" /\ sout[k].kind = "tool_use"
      /\ sout[j].index = sout[k].index )
    => sout[j].id = sout[k].id

\* C31, the case it names: no tool-use id is written to an index of
\* toolUseIdByBlockIndex that holds another tool's id.
C31_OpenToolKeepsItsIndex ==
  [][ \A i \in DOMAIN toolUseIdByBlockIndex :
        i \in DOMAIN toolUseIdByBlockIndex' => toolUseIdByBlockIndex'[i] = toolUseIdByBlockIndex[i] ]_vars

IsStopEv(e) == e.type = "content_block_stop"

\* the events one step appended to the stream
Appended == SubSeq(sout', Len(sout) + 1, Len(sout'))

\* C32: the step that ends a stream with open blocks sends one
\* content_block_stop for each open block, in ascending index order, then
\* one message_delta after them.
C32_FinalStopsAscending ==
  [][ (spc = "reading" /\ spc' = "closed") =>
        LET stops == SelectSeq(Appended, IsStopEv)
        IN  /\ { stops[k].index : k \in DOMAIN stops } = { i \in DOMAIN ssm.blocks : BlockOpen(ssm, i) }
            /\ \A j \in DOMAIN stops : \A k \in DOMAIN stops : j < k => stops[j].index < stops[k].index
            /\ CountType(Appended, "message_delta") = 1
            /\ \A j \in DOMAIN Appended : \A k \in DOMAIN Appended :
                 (IsStopEv(Appended[j]) /\ Appended[k].type = "message_delta") => j < k ]_vars

\* a closed stream whose text block and tool block 1 were both closed at the end
C32_Witness ==
  /\ spc = "closed"
  /\ \E k \in DOMAIN sout :
       /\ k + 2 \in DOMAIN sout
       /\ IsStopEv(sout[k]) /\ sout[k].index = 0
       /\ IsStopEv(sout[k + 1]) /\ sout[k + 1].index = 1
       /\ sout[k + 2].type = "message_delta"

\* the block index a step's upstream event addresses for tool-use id
ToolIndexOf(id) ==
  IF LookupBlockIndex(toolUseIdByBlockIndex, id) # -1
  THEN LookupBlockIndex(toolUseIdByBlockIndex, id)
  ELSE MapSize(toolUseIdByBlockIndex) + 1

RECURSIVE EmittedTokens(_)
\* the tokens accumulateTokens counts for the events of a stream
EmittedTokens(out) ==
  IF out = << >> THEN 0 ELSE AccumulateTokens(Head(out)) + EmittedTokens(Tail(out))

\* C40: totalOutputTokens is the sum of what accumulateTokens counts for the
\* events that were emitted; a rejected event adds nothing.
C40_TokensOnlyForEmitted == totalOutputTokens = EmittedTokens(sout)

(***************************************************************************)
(* One upstream body answered both ways: streamed by handleStreamRequest   *)
(* and collected by handleNonStreamRequest                                 *)
(***************************************************************************)
\* Payloads of the body: a tool that stays open, a tool that stops, a
\* filtered tool, a fragment without name, text, and a payload that is not JSON.
BothWaysEvents ==
  { ToolEv("t1", "lookup", "none", Absent, FALSE),
    ToolEv("t2", "lookup", "string", FragQ2, TRUE),
    ToolEv("t1", Absent, "string", FragQ1, FALSE),
    ToolEv("t3", "web_search", "none", Absent, FALSE),
    TextEv("hi"),
    GarbageEv }

BothWaysInit ==
  /\ cupstream \in UNION { [ 1..n -> BothWaysEvents ] : n \in 1..MaxPayloads }
  /\ cdone = FALSE
  /\ cresponse = NoResponse

\* the read loop delivers the next payload of the body
BothWaysRead ==
  /\ nRead < Len(cupstream)
  /\ StreamRead(cupstream[nRead + 1])

\* reader.read() reports done after the last payload
BothWaysEnd ==
  /\ nRead = Len(cupstream)
  /\ StreamEnd

BothWaysNext ==
  \/ StreamStart
  \/ BothWaysRead
  \/ BothWaysEnd
  \/ CollectRun

\* a payload that starts a tool use: toolUseId and name present
StartsTool(event) == event.json /\ Truthy(event.toolUseId) /\ Truthy(event.name)

\* a tool use the collector keeps: web_search is filtered
KeepsTool(event) == StartsTool(event) /\ event.name \notin { "web_search", "websearch" }

TakesInput(k, kind) ==
  /\ KeepsTool(cupstream[k])
  /\ cupstream[k].toolUseId = "t1"
  /\ cupstream[k].inputKind = kind

\* C35: when the last input fragment the collector takes for a tool is an
\* object and string fragments were taken before it, the tool's input in
\* the response is that object.
C35_ObjectReplacesFragments ==
  cdone =>
    \A k \in DOMAIN cupstream :
      ( /\ TakesInput(k, "object")
        /\ \E j \in 1..(k - 1) : TakesInput(j, "string")
        /\ \A j \in (k + 1)..Len(cupstream) : ~TakesInput(j, "string") /\ ~TakesInput(j, "object") )
      => \E n \in DOMAIN cresponse.tool_uses :
           /\ cresponse.tool_uses[n].id = "t1"
           /\ cresponse.tool_uses[n].input = cupstream[k].input

(***************************************************************************)
(* Frames whose prelude declares more header bytes than the frame holds    *)
(***************************************************************************)
\* a frame of 16 + Len(body) bytes whose headers_length field is headerLength
FrameDeclaring(headerLength, body) ==
  U32BE(16 + Len(body)) \o U32BE(headerLength) \o << 0, 0, 0, 0 >> \o body \o << 0, 0, 0, 0 >>

\* headers_length <= total_length - 16
HeadersFit(frame) == GetUint32(frame, 4) <= GetUint32(frame, 0) - 16

\* one utf8 header, as frame body
OneHeader == Header(<< 58, 101 >>, 7, << 97, 98 >>)

\* Streams of two frames, the first declaring headers of exactly the body,
\* one byte more, or far more than the frame; with and without a body
OverlongStreams ==
  { << FrameDeclaring(hl, body), f >> :
      hl \in { Len(OneHeader), Len(OneHeader) + 1, 100 }, body \in { OneHeader }, f \in DecFrames }
  \cup { << FrameDeclaring(hl, << >>), f >> : hl \in { 0, 1, 5 }, f \in DecFrames }

OverlongInit ==
  /\ dframes \in OverlongStreams
  /\ dpos = 0
  /\ dparser = NewParser
  /\ dmsgs = << >>
  /\ dthrew = FALSE
  /\ dcuts = {}

\* C36: once the whole stream is fed, the decoder has emitted one message
\* for each frame whose headers_length is at most total_length - 16 and none
\* for a frame declaring more, which it counted as one error.
C36_OverlongHeadersNotEmitted ==
  dpos = Len(Flatten(dframes)) =>
    /\ Len(dmsgs) = Cardinality({ k \in DOMAIN dframes : HeadersFit(dframes[k]) })
    /\ dparser.errorCount = Cardinality({ k \in DOMAIN dframes : ~HeadersFit(dframes[k]) })

(***************************************************************************)
(* One call of a frame parser, one loop iteration per step:                *)
(* CompliantEventStreamParser.parseStream (parser/stream_parser.ts),       *)
(* EventStreamParser.parse (parser/event_stream_parser.ts) and             *)
(* RobustEventStreamParser.parseStream (parser/robust_parser.ts)           *)
(***************************************************************************)
LoopParsers == { "CompliantEventStreamParser", "EventStreamParser", "RobustEventStreamParser" }

\* the payload "{}"
JsonPayload == << 123, 125 >>

\* JSON.parse(new TextDecoder().decode(payload)) does not throw
IsJsonBytes(payload) == payload = JsonPayload

\* Chunks handed to a new parser.  The frames carry no headers, so
\* parseHeaders has nothing to read; LengthBlock(n) is a 16-byte block whose
\* prelude declares total_length n.
LoopChunks ==
  { Frame(<< >>, JsonPayload),
    Frame(<< >>, << 1, 2 >>) \o Frame(<< >>, << >>),
    Frame(<< >>, JsonPayload) \o << 0, 0, 0 >>,
    LengthBlock(0) \o Frame(<< >>, JsonPayload),
    LengthBlock(8) \o Frame(<< >>, JsonPayload),
    LengthBlock(12),
    LengthBlock(15) \o Frame(<< >>, << >>),
    LengthBlock(40),
    LengthBlock(0) \o LengthBlock(0),
    Noise(20) \o Frame(<< >>, << >>),
    << 0, 0, 0, 0 >> }

LoopIdle ==
  /\ lpParser = Absent
  /\ lpBuffer = << >>
  /\ lpPc = "idle"
  /\ lpErrors = 0
  /\ lpEmitted = 0

\* `messages.push(message)`: the count saturates at MaxEmitted
Pushed(n) == Min(n + 1, MaxEmitted)

\* parseStream(chunk) / parse(chunk) on a new parser: the chunk is appended
\* to the empty buffer and the while loop is entered
LoopCall(parser, chunk) ==
  /\ lpPc = "idle"
  /\ lpParser' = parser
  /\ lpBuffer' = chunk
  /\ lpPc' = "loop"
  /\ UNCHANGED << lpErrors, lpEmitted >>
  /\ UNCHANGED otherThanLoop

\* CompliantEventStreamParser.parseStream: the loop test and one iteration
CompliantTurn ==
  /\ lpParser = "CompliantEventStreamParser"
  /\ lpPc = "loop"
  /\ IF Len(lpBuffer) < 16
     THEN lpPc' = "returned" /\ UNCHANGED << lpBuffer, lpEmitted >>
     ELSE LET totalLength  == GetUint32(lpBuffer, 0)
              headerLength == GetUint32(lpBuffer, 4)
              payloadStart == 12 + headerLength
              payloadEnd   == totalLength - 4
          IN  IF Len(lpBuffer) < totalLength
              THEN lpPc' = "returned" /\ UNCHANGED << lpBuffer, lpEmitted >>
              ELSE /\ lpEmitted' = IF /\ payloadEnd > payloadStart
                                      /\ IsJsonBytes(Slice(lpBuffer, payloadStart, payloadEnd))
                                   THEN Pushed(lpEmitted) ELSE lpEmitted
                   /\ lpBuffer' = Slice(lpBuffer, totalLength, Len(lpBuffer))
                   /\ UNCHANGED lpPc
  /\ UNCHANGED << lpParser, lpErrors >>
  /\ UNCHANGED otherThanLoop

\* EventStreamParser.parse: the loop test and one iteration (parseMessage
\* does not throw on a frame without headers)
EventTurn ==
  /\ lpParser = "EventStreamParser"
  /\ lpPc = "loop"
  /\ IF Len(lpBuffer) < 12
     THEN lpPc' = "returned" /\ UNCHANGED << lpBuffer, lpEmitted >>
     ELSE LET totalLength == GetUint32(lpBuffer, 0)
          IN  IF Len(lpBuffer) < totalLength
              THEN lpPc' = "returned" /\ UNCHANGED << lpBuffer, lpEmitted >>
              ELSE /\ lpBuffer' = Slice(lpBuffer, totalLength, Len(lpBuffer))
                   /\ lpEmitted' = Pushed(lpEmitted)
                   /\ UNCHANGED lpPc
  /\ UNCHANGED << lpParser, lpErrors >>
  /\ UNCHANGED otherThanLoop

\* RobustEventStreamParser.parseStream: the loop test and one iteration
RobustTurn ==
  /\ lpParser = "RobustEventStreamParser"
  /\ lpPc = "loop"
  /\ IF Len(lpBuffer) < MIN_MESSAGE_SIZE
     THEN lpPc' = "returned" /\ UNCHANGED << lpBuffer, lpErrors, lpEmitted >>
     ELSE LET totalLength == GetUint32(lpBuffer, 0)
              m == ParseSingleMessage(Slice(lpBuffer, 0, totalLength))
          IN  IF LengthOutOfRange(totalLength)
              THEN /\ lpBuffer' = Slice(lpBuffer, 1, Len(lpBuffer))
                   /\ lpErrors' = lpErrors + 1
                   /\ UNCHANGED << lpPc, lpEmitted >>
              ELSE IF Len(lpBuffer) < totalLength
              THEN lpPc' = "returned" /\ UNCHANGED << lpBuffer, lpErrors, lpEmitted >>
              ELSE /\ lpBuffer' = Slice(lpBuffer, totalLength, Len(lpBuffer))
                   /\ IF ~m.threw
                      THEN /\ lpEmitted' = Pushed(lpEmitted)
                           /\ UNCHANGED << lpPc, lpErrors >>
                      ELSE /\ lpErrors' = lpErrors + 1
                           /\ lpPc' = IF lpErrors + 1 >= DefaultMaxErrors THEN "threw" ELSE "loop"
                           /\ UNCHANGED lpEmitted
  /\ UNCHANGED lpParser
  /\ UNCHANGED otherThanLoop

LoopTurn == CompliantTurn \/ EventTurn \/ RobustTurn

LoopNext ==
  \/ \E parser \in LoopParsers : \E chunk \in LoopChunks : LoopCall(parser, chunk)
  \/ CompliantTurn
  \/ EventTurn
  \/ RobustTurn

\* C37: every call of a frame parser that entered its loop returns (or
\* throws): the loop does not run for ever.
C37_EveryCallReturns == (lpPc = "loop") ~> (lpPc \in { "returned", "threw" })

(***************************************************************************)
(* Service start (main.ts: initialize, handleRequestWithInit, main) and    *)
(* AuthService.reload (auth/auth_service.ts)                               *)
(***************************************************************************)
\* the requests that reach handleRequestWithInit
BootRequests == { "r1", "r2" }

BootCallers == { "main" } \cup BootRequests

BootIdle ==
  /\ bootMode = "local"
  /\ envToken = TRUE
  /\ bpc = [ c \in BootCallers |-> "idle" ]
  /\ globalAuthService = 0
  /\ globalClientToken = FALSE
  /\ initCalls = 0
  /\ liveTimers = << >>
  /\ rpc = "idle"
  /\ rsvc = 0
  /\ reloads = 0

BootInit ==
  /\ bootMode \in { "local", "deploy" }
  /\ envToken \in BOOLEAN
  /\ bpc = [ c \in BootCallers |-> "idle" ]
  /\ globalAuthService = 0
  /\ globalClientToken = FALSE
  /\ initCalls = 0
  /\ liveTimers = << >>
  /\ rpc = "idle"
  /\ rsvc = 0
  /\ reloads = 0

\* initialize() is entered and runs up to `await Deno.readTextFile(".env")`
EnterInitialize(c) ==
  /\ initCalls' = initCalls + 1
  /\ bpc' = [ bpc EXCEPT ![c] = "env" ]
  /\ UNCHANGED << bootMode, envToken, globalAuthService, globalClientToken, liveTimers, rpc, rsvc, reloads >>

\* main(): `await initialize()` before Deno.serve (not run on Deno Deploy)
BootMain ==
  /\ bootMode = "local"
  /\ bpc["main"] = "idle"
  /\ EnterInitialize("main")
  /\ UNCHANGED otherThanBoot

\* handleRequestWithInit: `if (!globalAuthService || !globalClientToken) await initialize()`
BootRequest(r) ==
  /\ bpc[r] = "idle"
  /\ bootMode = "deploy" \/ bpc["main"] = "serving"
  /\ IF globalAuthService = 0 \/ ~globalClientToken
     THEN EnterInitialize(r)
     ELSE /\ bpc' = [ bpc EXCEPT ![r] = "handling" ]
          /\ UNCHANGED << bootMode, envToken, globalAuthService, globalClientToken, initCalls,
                          liveTimers, rpc, rsvc, reloads >>
  /\ UNCHANGED otherThanBoot

\* initialize() after the .env read: globalClientToken is set; without it
\* initialize throws, with it AuthService.create() is called and awaited
BootEnvLoaded(c) ==
  /\ bpc[c] = "env"
  /\ globalClientToken' = envToken
  /\ bpc' = [ bpc EXCEPT ![c] = IF envToken THEN "create" ELSE "failed" ]
  /\ UNCHANGED << bootMode, envToken, globalAuthService, initCalls, liveTimers, rpc, rsvc, reloads >>
  /\ UNCHANGED otherThanBoot

\* AuthService.create() has returned: a TokenManager was constructed (its
\* constructor starts the sweep timer) and globalAuthService is assigned
BootCreated(c) ==
  /\ bpc[c] = "create"
  /\ liveTimers' = Append(liveTimers, 1)
  /\ globalAuthService' = Len(liveTimers) + 1
  /\ bpc' = [ bpc EXCEPT ![c] = IF c = "main" THEN "serving" ELSE "handling" ]
  /\ UNCHANGED << bootMode, envToken, globalClientToken, initCalls, rpc, rsvc, reloads >>
  /\ UNCHANGED otherThanBoot

\* handleRequest has answered
BootHandled(r) ==
  /\ r \in BootRequests
  /\ bpc[r] = "handling"
  /\ bpc' = [ bpc EXCEPT ![r] = "done" ]
  /\ UNCHANGED << bootMode, envToken, globalAuthService, globalClientToken, initCalls,
                  liveTimers, rpc, rsvc, reloads >>
  /\ UNCHANGED otherThanBoot

\* an admin request calls authService.reload(): `await loadAuthConfigs()`
ReloadStart ==
  /\ rpc = "idle"
  /\ globalAuthService # 0
  /\ reloads < MaxReloads
  /\ rsvc' = globalAuthService
  /\ rpc' = "loading"
  /\ UNCHANGED << bootMode, envToken, bpc, globalAuthService, globalClientToken, initCalls,
                  liveTimers, reloads >>
  /\ UNCHANGED otherThanBoot

\* reload(): `this.tokenManager = new TokenManager(configs)`; the manager
\* it replaces is dropped as it is, its timer running
ReloadSwap ==
  /\ rpc = "loading"
  /\ liveTimers' = [ liveTimers EXCEPT ![rsvc] = @ + 1 ]
  /\ rpc' = "warming"
  /\ UNCHANGED << bootMode, envToken, bpc, globalAuthService, globalClientToken, initCalls,
                  rsvc, reloads >>
  /\ UNCHANGED otherThanBoot

\* reload(): warmupAllTokens has settled
ReloadWarmed ==
  /\ rpc = "warming"
  /\ rpc' = "idle"
  /\ reloads' = reloads + 1
  /\ UNCHANGED << bootMode, envToken, bpc, globalAuthService, globalClientToken, initCalls,
                  liveTimers, rsvc >>
  /\ UNCHANGED otherThanBoot

BootNext ==
  \/ BootMain
  \/ \E r \in BootRequests : BootRequest(r)
  \/ \E c \in BootCallers : BootEnvLoaded(c)
  \/ \E c \in BootCallers : BootCreated(c)
  \/ \E r \in BootRequests : BootHandled(r)
  \/ ReloadStart
  \/ ReloadSwap
  \/ ReloadWarmed

AuxIdle == LoopIdle /\ BootIdle

\* C38: with the client token configured, initialize() is entered at most
\* once and at most one AuthService is created, however many requests
\* arrive before the first initialisation has completed.
C38_InitializedOnce == envToken => (initCalls <= 1 /\ Len(liveTimers) <= 1)

\* C39: no AuthService has more than one TokenManager whose sweep timer runs.
C39_OneSweepTimerPerService == \A k \in DOMAIN liveTimers : liveTimers[k] <= 1

(***************************************************************************)
(* Specifications                                                          *)
(***************************************************************************)
InitLoop == LoopIdle /\ BootIdle /\ StreamInit /\ DecIdle /\ OpenAIIdle /\ PoolIdle /\ CollectIdle /\ HttpIdle /\ SessionIdle

\* the loop runs on: the thread executes one iteration after the other
SpecLoop == InitLoop /\ [][LoopNext]_vars /\ WF_vars(LoopTurn)

InitBoot == BootInit /\ LoopIdle /\ StreamInit /\ DecIdle /\ OpenAIIdle /\ PoolIdle /\ CollectIdle /\ HttpIdle /\ SessionIdle

SpecBoot == InitBoot /\ [][BootNext]_vars

InitStream == StreamInit /\ DecIdle /\ OpenAIIdle /\ PoolIdle /\ CollectIdle /\ FrontIdle /\ AuxIdle

SpecStream == InitStream /\ [][StreamNext]_vars

SpecStreamExc == InitStream /\ [][StreamExcNext]_vars

\* every await of start() settles: upstream answers, delivers, ends or fails
SpecStreamLive == InitStream /\ [][StreamExcNext]_vars /\ WF_vars(StreamExcNext)

InitDecoder == DecInit /\ StreamInit /\ OpenAIIdle /\ PoolIdle /\ CollectIdle /\ FrontIdle /\ AuxIdle

SpecDecoder == InitDecoder /\ [][DecNext]_vars

InitResync == ResyncInit /\ StreamInit /\ OpenAIIdle /\ PoolIdle /\ CollectIdle /\ FrontIdle /\ AuxIdle

SpecResync == InitResync /\ [][DecNext]_vars

InitOverlong == OverlongInit /\ StreamInit /\ OpenAIIdle /\ PoolIdle /\ CollectIdle /\ FrontIdle /\ AuxIdle

SpecOverlong == InitOverlong /\ [][DecNext]_vars

InitWire == WireInit /\ StreamInit /\ OpenAIIdle /\ PoolIdle /\ CollectIdle /\ FrontIdle /\ AuxIdle

SpecWire == InitWire /\ [][DecNext]_vars

InitOpenAI == OpenAIInit /\ StreamInit /\ DecIdle /\ PoolIdle /\ CollectIdle /\ FrontIdle /\ AuxIdle

SpecOpenAI == InitOpenAI /\ [][OpenAINext]_vars

InitPool == PoolInit /\ StreamInit /\ DecIdle /\ OpenAIIdle /\ CollectIdle /\ FrontIdle /\ AuxIdle

SpecPool == InitPool /\ [][PoolNext]_vars

SpecPoolLife == InitPool /\ [][PoolLifeNext]_vars

InitCollect == CollectInit /\ StreamInit /\ DecIdle /\ OpenAIIdle /\ PoolIdle /\ FrontIdle /\ AuxIdle

SpecCollect == InitCollect /\ [][CollectNext]_vars

InitBothWays == BothWaysInit /\ StreamInit /\ DecIdle /\ OpenAIIdle /\ PoolIdle /\ FrontIdle /\ AuxIdle

SpecBothWays == InitBothWays /\ [][BothWaysNext]_vars

InitHttp == HttpIdle /\ SessionIdle /\ StreamInit /\ DecIdle /\ OpenAIIdle /\ PoolIdle /\ CollectIdle /\ AuxIdle

SpecHttp == InitHttp /\ [][HttpNext]_vars

SpecSession == InitHttp /\ [][SessionNext]_vars

SpecPoolService ==
  InitPool /\ [][PoolServiceNext(ServiceCallers, { TRUE })]_vars /\ PoolServiceFairness(ServiceCallers, { TRUE })

SpecPoolSerial ==
  InitPool /\ [][PoolServiceNext({ "a" }, BOOLEAN)]_vars /\ PoolServiceFairness({ "a" }, BOOLEAN)

=============================================================================
